---- MODULE Spec2Model ----
(***************************************************************************)
(* A model of pcs/cluster.py: the cluster membership commands of pcs.      *)
(*                                                                         *)
(*   SpecConf    cluster_setup_create_corosync_conf applied to bounded     *)
(*               node lists and option dictionaries                        *)
(*   Spec        the commands "node add", "node remove", "stop <nodes>",   *)
(*               the local "stop", "start", "enable" and "disable" over    *)
(*               nodes, "destroy" and "setup", one external call or one    *)
(*               batch of calls per step                                   *)
(*   SpecFanout  parallel_for_nodes, one worker per node, free             *)
(*               interleaving                                              *)
(*   SpecWait    wait_for_nodes_started: one waiter per node polling the   *)
(*               node status until a deadline                              *)
(*   SpecWaitFair  a single waiter that is always scheduled again          *)
(*   SpecParse   cluster_setup_parse_options_corosync and                  *)
(*               cluster_setup_parse_options_cman applied to the same      *)
(*               option dictionary, then the two config generators         *)
(*                                                                         *)
(* A python dict is a function whose DOMAIN is the set of its keys; a      *)
(* python list is a sequence.                                              *)
(***************************************************************************)
EXTENDS Integers, Sequences, FiniteSets, TLC

VARIABLES
    \* ---- cluster_setup_create_corosync_conf -------------------------
    cpc,                \* "input" before the call, "built" after it
    node_list,          \* argument: list of node option dicts
    transport_options,  \* argument: dict
    totem_options,      \* argument: dict
    quorum_options,     \* argument: dict
    corosync_conf,      \* the Section tree the function builds
    \* ---- one run of a command (cluster_node, stop_cluster, ...) -----
    cmd,                \* "add", "remove", "stop_nodes", "stop_local"; "none"
    pc,                 \* the place the run has reached
    pcs_options,        \* utils.pcs_options: the set of options given
    env,                \* what the host answers: is_rhel6, os.path.exists, ...
    all_nodes,          \* utils.getNodesFromCorosyncConf()
    node0,              \* ring 0 address of the node to add or remove
    nodes,              \* stop_cluster_nodes: the nodes to stop
    truth,              \* the quorum info the quorate partition reports
    qlog,               \* the quorum-tool answers obtained so far
    error_list,         \* stop_cluster_nodes: error_list of the quorum loop
    idx,                \* position of a for loop in its list
    updated,            \* corosync_conf != None (add) / nodesRemoved (remove)
    calls,              \* the state-changing external calls issued, in order
    msgs,               \* what was printed, in order
    outcome,            \* "running", "ok" (returned), "fatal" (utils.err exit)
    \* ---- one batch of parallel_for_nodes ---------------------------
    fan_pc,             \* "running" until every worker is joined, then "done"
    fan_nodes,          \* node_list: the nodes of the batch
    fan_failing,        \* positions of node_list whose action fails
    fan_state,          \* per position: "queued", "running", "finished"
    fan_finished,       \* the positions in the order their workers finished
    fan_results,        \* the per-node results returned
    \* ---- one call of wait_for_nodes_started -------------------------
    w_pc,               \* "waiting" until it returns, then "done"
    w_nodes,            \* node_list; <<>> waits for the local node
    stop_at,            \* the deadline
    w_state,            \* per waiter: "polling" or "returned"
    w_wake,             \* per waiter: when its time.sleep(interval) ends
    w_last,             \* per waiter: the answer to its latest status query
    w_late,             \* per waiter: that query was made after the deadline
    w_polls,            \* per waiter: the status queries it has made
    w_result,           \* per waiter: the (code, output) returned
    w_msgs,             \* what wait_for_nodes_started printed
    w_outcome,          \* "running", "ok" or "fatal"
    \* ---- the option parsers and config generators of cluster_setup --
    p_pc,               \* the next function to apply; "done" after the last
    p_options,          \* utils.pcs_options as a dict
    p_force,            \* "--force" in utils.pcs_options
    p_udpu_rrp,         \* some node was given with a ring 1 address
    p_corosync,         \* what the corosync parser returned
    p_cman,             \* what the cman parser returned
    p_conf,             \* the corosync.conf built from p_corosync
    p_commands          \* the ccs commands built from p_cman

confVars == <<cpc, node_list, transport_options, totem_options,
              quorum_options, corosync_conf>>

cmdVars == <<cmd, pc, pcs_options, env, all_nodes, node0, nodes, truth, qlog,
             error_list, idx, updated, calls, msgs, outcome>>

fanVars == <<fan_pc, fan_nodes, fan_failing, fan_state, fan_finished,
             fan_results>>

waitVars == <<w_pc, w_nodes, stop_at, w_state, w_wake, w_last, w_late,
              w_polls, w_result, w_msgs, w_outcome>>

parseVars == <<p_pc, p_options, p_force, p_udpu_rrp, p_corosync, p_cman,
               p_conf, p_commands>>

vars == <<confVars, cmdVars, fanVars, waitVars, parseVars>>

(***************************************************************************)
(* Bounds                                                                  *)
(***************************************************************************)
MaxConfNodes == 3       \* longest node list given to the config builder
MaxNodes == 3           \* nodes of the cluster the commands run against
MaxTargets == 2         \* longest node list given to "stop"
MaxFanNodes == 3        \* longest node list of a parallel batch
MaxWorkers == 2         \* workers of a batch that run at the same time
MaxWaitNodes == 2       \* longest node list given to wait_for_nodes_started
MaxTimeout == 2         \* longest timeout given to wait_for_nodes_started
MaxLag == 1             \* longest a status query lags behind the end of a sleep

(***************************************************************************)
(* Generic helpers                                                         *)
(***************************************************************************)
Range(s) == {s[i] : i \in 1..Len(s)}

HasKey(d, k) == k \in DOMAIN d

EmptyDict == [k \in {} |-> ""]

\* all sequences over S of length 0..n
SeqsUpTo(S, n) == UNION {[1..k -> S] : k \in 0..n}

\* all dicts whose keys are a subset of K and whose values are in V
DictsOver(K, V) == UNION {[D -> V] : D \in SUBSET K}

(***************************************************************************)
(* corosync_conf_utils.Section as cluster.py uses it: a name, the          *)
(* attributes in the order add_attribute was called, the sub-sections in   *)
(* the order add_section was called.                                       *)
(***************************************************************************)
Section(name, attrs, sections) ==
    [name |-> name, attrs |-> attrs, sections |-> sections]

\* the add_attribute calls of a loop
\*     for opt_name in names: if opt_name in d: add_attribute(opt_name, d[opt_name])
AttrsFrom(names, d) ==
    LET present == SelectSeq(names, LAMBDA k : HasKey(d, k))
    IN  [i \in 1..Len(present) |-> <<present[i], d[present[i]]>>]

\* the values a section holds under a key, in order
AttrValues(sec, key) ==
    LET hits == SelectSeq(sec.attrs, LAMBDA a : a[1] = key)
    IN  [i \in 1..Len(hits) |-> hits[i][2]]

HasAttr(sec, key) == \E i \in 1..Len(sec.attrs) : sec.attrs[i][1] = key

\* the direct sub-sections of a given name, in order
SubSections(sec, name) == SelectSeq(sec.sections, LAMBDA s : s.name = name)

(***************************************************************************)
(* cluster_setup_create_corosync_conf                                      *)
(***************************************************************************)
transport_options_names == <<"transport", "rrp_mode", "ip_version">>

totem_options_names ==
    <<"token", "token_coefficient", "join", "consensus",
      "miss_count_const", "fail_recv_const">>

quorum_options_names ==
    <<"wait_for_all", "auto_tie_breaker", "last_man_standing",
      "last_man_standing_window">>

\* one "interface" section of totem, for the ring at list position ring_number
InterfaceSection(ring_number, ring_options) ==
    Section("interface",
        <<<<"ringnumber", ring_number>>>>
        \o (IF HasKey(ring_options, "addr")
            THEN <<<<"bindnetaddr", ring_options["addr"]>>>>
            ELSE <<>>)
        \o (IF HasKey(ring_options, "broadcast") /\ ring_options["broadcast"] = TRUE
            THEN <<<<"broadcast", "yes">>>>
            ELSE AttrsFrom(<<"mcastaddr", "mcastport", "ttl">>, ring_options)),
        <<>>)

InterfaceSections(t_options) ==
    LET transport == IF HasKey(t_options, "transport")
                     THEN t_options["transport"] ELSE "None"
    IN  IF transport = "udp" /\ HasKey(t_options, "rings_options")
        THEN [i \in 1..Len(t_options["rings_options"]) |->
                 InterfaceSection(i - 1, t_options["rings_options"][i])]
        ELSE <<>>

TotemSection(cluster_name, t_options, tt_options) ==
    Section("totem",
        <<<<"version", "2">>, <<"secauth", "off">>,
          <<"cluster_name", cluster_name>>>>
        \o AttrsFrom(transport_options_names, t_options)
        \o AttrsFrom(totem_options_names, tt_options),
        InterfaceSections(t_options))

\* a mutant of NodeIdOf: enumerate(node_list) without the start value
NodeIdFromZero(k) == k - 1

\* the node_id that enumerate(node_list, 1) gives the k-th entry (k = 1..n)
NodeIdOf(k) == k

NodeSection(node_id, node_options) ==
    Section("node",
        AttrsFrom(<<"ring0_addr", "ring1_addr">>, node_options)
        \o <<<<"nodeid", node_id>>>>,
        <<>>)

NodelistSection(n_list) ==
    Section("nodelist", <<>>,
        [k \in 1..Len(n_list) |-> NodeSection(NodeIdOf(k), n_list[k])])

auto_tie_breaker(q_options) ==
    HasKey(q_options, "auto_tie_breaker") /\ q_options["auto_tie_breaker"] = "1"

\* a mutant of TwoNode: the tie-breaker test is left out
TwoNodeIgnoringTieBreaker(n_list, q_options) == Len(n_list) = 2

TwoNode(n_list, q_options) ==
    Len(n_list) = 2 /\ ~auto_tie_breaker(q_options)

QuorumSection(n_list, q_options) ==
    Section("quorum",
        <<<<"provider", "corosync_votequorum">>>>
        \o AttrsFrom(quorum_options_names, q_options)
        \o (IF TwoNode(n_list, q_options)
            THEN <<<<"two_node", "1">>>> ELSE <<>>),
        <<>>)

LoggingSection ==
    Section("logging",
        <<<<"to_logfile", "yes">>,
          <<"logfile", "/var/log/cluster/corosync.log">>,
          <<"to_syslog", "yes">>>>,
        <<>>)

create_corosync_conf(cluster_name, n_list, t_options, tt_options, q_options) ==
    Section("",
        <<>>,
        <<TotemSection(cluster_name, t_options, tt_options),
          NodelistSection(n_list),
          QuorumSection(n_list, q_options),
          LoggingSection>>)

(***************************************************************************)
(* Inputs of the config builder                                            *)
(***************************************************************************)
ConfAddrs == {"node-a", "node-b", "node-c"}

Ring1Of(a) ==
    CASE a = "node-a" -> "node-a-r1"
      [] a = "node-b" -> "node-b-r1"
      [] OTHER        -> "node-c-r1"

\* the dicts cluster_setup builds from argv
NodeOptionDicts ==
    {[ring0_addr |-> a] : a \in ConfAddrs}
    \cup {[ring0_addr |-> a, ring1_addr |-> Ring1Of(a)] : a \in ConfAddrs}

\* ring_options as cluster_setup_parse_options_corosync builds them
RingOptionDicts ==
    {[addr |-> "10.0.0.0", mcastaddr |-> "239.255.1.1", mcastport |-> "5405"],
     [addr |-> "10.0.1.0", mcastaddr |-> "239.255.2.1", mcastport |-> "5405",
      ttl |-> "2"],
     [addr |-> "10.0.0.0", broadcast |-> TRUE]}

\* parsed["transport_options"]: transport and rings_options are always set
TransportOptionDicts ==
    {[transport |-> "udpu", rings_options |-> <<>>],
     [transport |-> "udpu", rrp_mode |-> "passive", rings_options |-> <<>>],
     [transport |-> "udp", rings_options |-> <<>>],
     [transport |-> "udp", rrp_mode |-> "passive", ip_version |-> "ipv6",
      rings_options |->
         <<[addr |-> "10.0.0.0", mcastaddr |-> "239.255.1.1",
            mcastport |-> "5405"],
           [addr |-> "10.0.1.0", mcastaddr |-> "239.255.2.1",
            mcastport |-> "5405"]>>]}
    \cup {[transport |-> "udp", rrp_mode |-> "passive", rings_options |-> <<r>>] :
             r \in RingOptionDicts}

TotemOptionDicts == {EmptyDict, [token |-> "5000", join |-> "100"]}

QuorumOptionDicts ==
    DictsOver({"wait_for_all", "auto_tie_breaker"}, {"0", "1"})

NoConf == Section("none", <<>>, <<>>)

\* no parser has returned
NoParse == [parsed |-> EmptyDict, messages |-> <<>>]

\* no ccs command has been built
NoCommands == [commands |-> <<>>, messages |-> <<>>]

(***************************************************************************)
(* The cluster the commands run against                                    *)
(***************************************************************************)
NodeNames == <<"A", "B", "C", "D", "E">>

Nodes == {NodeNames[i] : i \in 1..MaxNodes}

\* the node the command runs on
LocalNode == NodeNames[1]

\* the address given to "node add"
NewNode == "N"

NoNode == "-"

\* a corosync.conf that lists the first k nodes
Members(k) == [i \in 1..k |-> NodeNames[i]]

force == "--force" \in pcs_options

Msg(sev, text, node) == [sev |-> sev, text |-> text, node |-> node]

Call(op, node, ok) == [op |-> op, node |-> node, ok |-> ok]

\* the calls of one kind in the log, in order
CallsOf(op) == SelectSeq(calls, LAMBDA c : c.op = op)

Called(op) == \E i \in 1..Len(calls) : calls[i].op = op

Printed(sev, text) ==
    \E i \in 1..Len(msgs) : msgs[i].sev = sev /\ msgs[i].text = text

(***************************************************************************)
(* Quorum status.  A node that is in the quorate partition reports the     *)
(* partition's view (truth); any node may report that it is not quorate,   *)
(* print something that is no quorum status, or look offline; a remote     *)
(* query may fail.  Every node has one vote.                               *)
(***************************************************************************)
Truths ==
    {t \in [quorum : 1..MaxNodes, online : SUBSET Nodes] :
        Cardinality(t.online) >= t.quorum}

NoInfo == [quorate |-> FALSE, quorum |-> 0, online |-> {}, local |-> NoNode]

QuorateView(n) ==
    [quorate |-> TRUE, quorum |-> truth.quorum, online |-> truth.online,
     local |-> n]

InquorateView(n) ==
    [quorate |-> FALSE, quorum |-> truth.quorum, online |-> {n}, local |-> n]

ViewsOf(n) ==
    {InquorateView(n)} \cup (IF n \in truth.online THEN {QuorateView(n)} ELSE {})

\* utils.run of the quorum tool on the local node, then the parser and
\* utils.is_node_offline_by_quorumtool_output
LocalAnswers(n) ==
    {[retval |-> 0, parsed |-> FALSE, info |-> NoInfo, offline |-> o] :
        o \in BOOLEAN}
    \cup {[retval |-> 0, parsed |-> TRUE, info |-> v, offline |-> FALSE] :
        v \in ViewsOf(n)}

\* utils.get_remote_quorumtool_output(n), then the same
RemoteAnswers(n) ==
    {[retval |-> 1, parsed |-> FALSE, info |-> NoInfo, offline |-> o] :
        o \in BOOLEAN}
    \cup LocalAnswers(n)

\* utils.is_node_stop_cause_quorum_loss(quorum_info, local, node_list)
is_node_stop_cause_quorum_loss(quorum_info, local, n_list) ==
    IF ~quorum_info.quorate
    THEN FALSE
    ELSE LET staying == {m \in quorum_info.online :
                            /\ ~(local /\ m = quorum_info.local)
                            /\ m \notin Range(n_list)}
         IN  Cardinality(staying) < quorum_info.quorum

\* pcs.utils.parallel_for_nodes(action, node_list): the error list of a
\* batch in which the nodes of `failing` fail
FanoutErrors(n_list, failing) ==
    SelectSeq(n_list, LAMBDA n : n \in failing)

\* the calls of a batch, one per entry of the node list
FanoutCalls(op, n_list, failing) ==
    [i \in 1..Len(n_list) |-> Call(op, n_list[i], n_list[i] \notin failing)]

(***************************************************************************)
(* Steps common to the commands                                            *)
(***************************************************************************)
inputVars == <<cmd, pcs_options, env, all_nodes, node0, nodes, truth>>

\* utils.err(text): print the error and exit
ErrExit(text, node) ==
    /\ msgs' = Append(msgs, Msg("error", text, node))
    /\ outcome' = "fatal"
    /\ pc' = "done"

Goto(label) ==
    /\ pc' = label
    /\ UNCHANGED outcome

Return ==
    /\ pc' = "done"
    /\ outcome' = "ok"

Running(c, label) ==
    /\ cmd = c
    /\ pc = label
    /\ outcome = "running"
    /\ UNCHANGED <<inputVars, confVars, fanVars, waitVars, parseVars>>

(***************************************************************************)
(* cluster_node, argv[0] in ("remove", "delete")                           *)
(***************************************************************************)
\* lines 1363-1376 and 1532-1535
RemoveValidate ==
    /\ Running("remove", "r_validate")
    /\ UNCHANGED <<qlog, error_list, idx, updated, calls>>
    /\ \E authorized \in BOOLEAN :
        /\ force => authorized      \* checkAuthorization is not called
        /\ IF ~authorized
           THEN ErrExit("not authorized, use --force to override", node0)
           ELSE IF node0 \notin Range(all_nodes)
           THEN ErrExit("node does not appear to exist in configuration", node0)
           ELSE Goto("r_quorum") /\ UNCHANGED msgs

\* a mutant of RemoveQuorumVerdict: the result of the loss test is dropped
RemoveQuorumVerdictNoLoss(resp, target) ==
    IF resp.retval # 0 THEN "undetermined"
    ELSE IF resp.parsed THEN "proceed"
    ELSE IF ~resp.offline THEN "undetermined"
    ELSE "proceed"

\* lines 1537-1565: what the answer of the target's quorum tool leads to
RemoveQuorumVerdict(resp, target) ==
    IF resp.retval # 0 THEN "undetermined"
    ELSE IF resp.parsed
    THEN IF is_node_stop_cause_quorum_loss(resp.info, FALSE, <<target>>)
         THEN "loss" ELSE "proceed"
    ELSE IF ~resp.offline THEN "undetermined"
    ELSE "proceed"

\* lines 1536-1565
RemoveQuorumCheck ==
    /\ Running("remove", "r_quorum")
    /\ UNCHANGED <<error_list, idx, updated, calls>>
    /\ IF force
       THEN Goto("r_stop") /\ UNCHANGED <<qlog, msgs>>
       ELSE \E resp \in RemoteAnswers(node0) :
            /\ qlog' = Append(qlog, [node |-> node0, resp |-> resp])
            /\ LET verdict == RemoveQuorumVerdict(resp, node0)
               IN  CASE verdict = "undetermined" ->
                          ErrExit("Unable to determine whether removing the node will cause a loss of the quorum, use --force to override", node0)
                     [] verdict = "loss" ->
                          ErrExit("Removing the node will cause a loss of the quorum, use --force to override", node0)
                     [] OTHER ->
                          Goto("r_stop") /\ UNCHANGED msgs

\* a mutant of RemoveStopTarget: the members are updated while the target
\* still runs
RemoveStopTargetOmitted ==
    /\ Running("remove", "r_stop")
    /\ UNCHANGED <<qlog, error_list, idx, msgs, calls>>
    /\ updated' = FALSE
    /\ Goto("r_push")

\* lines 1567-1569 and destroy_cluster line 1084: the error list of the
\* first batch is overwritten
RemoveStopTarget ==
    /\ Running("remove", "r_stop")
    /\ UNCHANGED <<qlog, error_list, idx, msgs>>
    /\ updated' = FALSE
    /\ \E failing \in SUBSET {node0} :
        calls' = calls \o FanoutCalls("stopPacemaker", <<node0>>, failing)
    /\ Goto("r_destroy")

\* a mutant of DestroyFailure: a failed destroy is only ever warned about
DestroyFailureKeepsGoing(keep_going) == "warn"

\* destroy_cluster lines 1088-1096: what a non-empty error list leads to
DestroyFailure(keep_going) == IF keep_going THEN "warn" ELSE "exit"

\* destroy_cluster lines 1087-1096, with keep_going = "--force" given
RemoveDestroyTarget ==
    /\ Running("remove", "r_destroy")
    /\ UNCHANGED <<qlog, error_list, updated>>
    /\ idx' = 1
    /\ \E failing \in SUBSET {node0} :
        /\ calls' = calls \o FanoutCalls("destroyCluster", <<node0>>, failing)
        /\ IF FanoutErrors(<<node0>>, failing) = <<>>
           THEN Goto("r_push") /\ UNCHANGED msgs
           ELSE IF DestroyFailure(force) = "warn"
           THEN /\ msgs' = Append(msgs,
                        Msg("warning", "unable to destroy cluster", node0))
                /\ Goto("r_push")
           ELSE ErrExit("unable to destroy cluster", node0)

RemoveResults == {"call_failed", "command_failed", "ok"}

\* a mutant of RemoveAccepted: a successful call counts whatever the command did
RemoveAcceptedOnCall(result) == result # "call_failed"

\* lines 1574-1587: retval == 0 and output[0] == 0
RemoveAccepted(result) == result = "ok"

\* a mutant of RemoveSkips: the update is sent to the removed node as well
RemoveSkipsNothing(my_node, target) == FALSE

\* lines 1571-1572
RemoveSkips(my_node, target) == my_node = target

\* lines 1570-1587: one pass of the loop over c_nodes
RemovePush ==
    /\ Running("remove", "r_push")
    /\ idx <= Len(all_nodes)
    /\ UNCHANGED <<qlog, error_list>>
    /\ idx' = idx + 1
    /\ Goto("r_push")
    /\ LET my_node == all_nodes[idx]
       IN  IF RemoveSkips(my_node, node0)
           THEN UNCHANGED <<updated, calls, msgs>>
           ELSE \E result \in RemoveResults :
                /\ calls' = Append(calls,
                       Call("removeLocalNode", my_node, RemoveAccepted(result)))
                /\ updated' = (updated \/ RemoveAccepted(result))
                /\ msgs' = Append(msgs,
                       CASE result = "ok" ->
                              Msg("info", "Corosync updated", my_node)
                         [] result = "call_failed" ->
                              Msg("error", "unable to remove node", my_node)
                         [] OTHER ->
                              Msg("error", "Error executing command occured", my_node))

\* lines 1588-1589
RemoveCheckUpdated ==
    /\ Running("remove", "r_push")
    /\ idx > Len(all_nodes)
    /\ UNCHANGED <<qlog, error_list, idx, updated, calls>>
    /\ IF updated = FALSE
       THEN ErrExit("Unable to update any nodes", NoNode)
       ELSE Goto("r_reload") /\ UNCHANGED msgs

\* line 1591
RemoveReload ==
    /\ Running("remove", "r_reload")
    /\ UNCHANGED <<qlog, error_list, idx, updated, msgs>>
    /\ \E ok \in BOOLEAN :
        calls' = Append(calls, Call("reloadCorosync", LocalNode, ok))
    /\ Goto("r_evict")

\* lines 1592-1595
RemoveEvict ==
    /\ Running("remove", "r_evict")
    /\ UNCHANGED <<qlog, error_list, idx, updated>>
    /\ \E ok \in BOOLEAN :
        calls' = Append(calls, Call("crm_node --force -R", node0, ok))
    /\ \E cman_with_udpu \in BOOLEAN :
        msgs' = IF cman_with_udpu
                THEN Append(msgs, Msg("warning",
                         "cluster restart is required to apply node removal",
                         NoNode))
                ELSE msgs
    /\ Return

(***************************************************************************)
(* cluster_node, argv[0] == "add"                                          *)
(***************************************************************************)
wait == "--start" \in pcs_options /\ "--wait" \in pcs_options

\* a mutant of AddRingError: only a missing ring 1 address is refused
AddRingErrorWhenMissing(node1, need_ring1_address) ==
    IF ~node1 /\ need_ring1_address
    THEN "cluster is configured for RRP, you have to specify ring 1 address for the node"
    ELSE ""

\* lines 1384-1394: the error the ring 1 address of the node gives, if any
AddRingError(node1, need_ring1_address) ==
    IF ~node1 /\ need_ring1_address
    THEN "cluster is configured for RRP, you have to specify ring 1 address for the node"
    ELSE IF node1 /\ ~need_ring1_address
    THEN "cluster is not configured for RRP, you must not specify ring 1 address for the node"
    ELSE ""

\* lines 1363-1398
AddValidate ==
    /\ Running("add", "a_validate")
    /\ UNCHANGED <<qlog, error_list, idx, updated>>
    /\ \E authorized \in BOOLEAN, canAdd \in BOOLEAN :
        IF ~authorized
        THEN ErrExit("not authorized", node0) /\ UNCHANGED calls
        ELSE IF AddRingError(env.node1, env.need_ring1_address) # ""
        THEN /\ ErrExit(AddRingError(env.node1, env.need_ring1_address), node0)
             /\ UNCHANGED calls
        ELSE /\ calls' = Append(calls,
                    Call("canAddNodeToCluster", node0, canAdd))
             /\ IF ~canAdd
                THEN ErrExit("Unable to add node to cluster", node0)
                ELSE Goto("a_aux") /\ UNCHANGED msgs

\* lines 1400-1454: sbd and booth configuration for the new node; a
\* LibraryError or NodeCommunicationException goes to process_library_reports
AddAuxSync ==
    /\ Running("add", "a_aux")
    /\ UNCHANGED <<qlog, error_list, updated>>
    /\ idx' = 1
    /\ \E ok \in BOOLEAN :
        /\ calls' = Append(calls, Call("sync_sbd_booth", node0, ok))
        /\ IF ok
           THEN Goto("a_push") /\ UNCHANGED msgs
           ELSE ErrExit("sbd or booth configuration failed", node0)

\* a mutant of AddPushFailureExits: utils.err called without its second
\* argument, which exits
AddPushFailureExitsByDefault(retval) == retval # 0

\* lines 1458-1462: utils.err(..., False) prints and does not exit
AddPushFailureExits(retval) == FALSE

\* lines 1456-1465: one pass of the loop over the existing members
AddPush ==
    /\ Running("add", "a_push")
    /\ idx <= Len(all_nodes)
    /\ UNCHANGED <<qlog, error_list>>
    /\ idx' = idx + 1
    /\ LET my_node == all_nodes[idx]
       IN  \E retval \in {0, 1} :
            /\ calls' = Append(calls, Call("addLocalNode", my_node, retval = 0))
            /\ updated' = (updated \/ retval = 0)
            /\ IF retval # 0
               THEN IF AddPushFailureExits(retval)
                    THEN ErrExit("unable to add node", my_node)
                    ELSE /\ msgs' = Append(msgs,
                                Msg("error", "unable to add node", my_node))
                         /\ Goto("a_push")
               ELSE /\ msgs' = Append(msgs,
                           Msg("info", "Corosync updated", my_node))
                    /\ Goto("a_push")

\* line 1467
AddReload ==
    /\ Running("add", "a_push")
    /\ idx > Len(all_nodes)
    /\ UNCHANGED <<qlog, error_list, idx, updated, msgs>>
    /\ \E ok \in BOOLEAN :
        calls' = Append(calls, Call("reloadCorosync", LocalNode, ok))
    /\ Goto("a_updated")

\* a mutant of AddAnyAccepted: every member has to accept
AddAllAccepted(some, pushes) == \A i \in 1..Len(pushes) : pushes[i].ok

\* lines 1465, 1468: corosync_conf != None
AddAnyAccepted(some, pushes) == some

\* lines 1468 and 1523-1524
AddCheckUpdated ==
    /\ Running("add", "a_updated")
    /\ UNCHANGED <<qlog, error_list, idx, updated, calls>>
    /\ IF AddAnyAccepted(updated, CallsOf("addLocalNode"))
       THEN Goto("a_pcsd") /\ UNCHANGED msgs
       ELSE ErrExit("Unable to update any nodes", NoNode)

\* what run_pcsdcli('send_local_configs') can come back with
PcsdResults ==
    {"retval", "notauthorized", "status_error", "ok_no_data", "ok",
     "ok_not_supported", "ok_node_error", "ok_node_missing"}

\* lines 1475-1489: the errors printed; any of them ends the command
PcsdErrors(result) ==
    CASE result = "retval" ->
           <<Msg("error", "Unable to set pcsd configs", NewNode)>>
      [] result = "notauthorized" ->
           <<Msg("error", "Unable to authenticate", NewNode)>>
      [] result = "ok_node_error" ->
           \* the bare except catches the exit of the first utils.err
           <<Msg("error", "Unable to set pcsd configs", NewNode),
             Msg("error", "Unable to communicate with pcsd", NewNode)>>
      [] result = "ok_node_missing" ->
           <<Msg("error", "Unable to communicate with pcsd", NewNode)>>
      [] OTHER -> <<>>

\* lines 1469-1489
AddSendPcsdConfigs ==
    /\ Running("add", "a_pcsd")
    /\ UNCHANGED <<qlog, error_list, idx, updated>>
    /\ \E result \in PcsdResults :
        /\ calls' = Append(calls, Call("send_local_configs", node0,
                               PcsdErrors(result) = <<>>))
        /\ msgs' = msgs \o PcsdErrors(result)
        /\ IF PcsdErrors(result) # <<>>
           THEN pc' = "done" /\ outcome' = "fatal"
           ELSE Goto("a_qdevice")

\* lines 1491-1507
AddQdevice ==
    /\ Running("add", "a_qdevice")
    /\ UNCHANGED <<qlog, error_list, idx, updated>>
    /\ IF env.is_rhel6
       THEN Goto("a_setconf") /\ UNCHANGED <<calls, msgs>>
       ELSE \E result \in {"not_net", "ok", "error"} :
            CASE result = "not_net" ->
                   Goto("a_setconf") /\ UNCHANGED <<calls, msgs>>
              [] result = "ok" ->
                   /\ calls' = Append(calls,
                          Call("_add_device_model_net", node0, TRUE))
                   /\ Goto("a_setconf") /\ UNCHANGED msgs
              [] OTHER ->
                   /\ calls' = Append(calls,
                          Call("_add_device_model_net", node0, FALSE))
                   /\ ErrExit("qdevice certificate setup failed", node0)

\* lines 1509-1510; utils.setCorosyncConfig may end the command itself
AddSetCorosyncConfig ==
    /\ Running("add", "a_setconf")
    /\ UNCHANGED <<qlog, error_list, idx, updated>>
    /\ \E ok \in BOOLEAN :
        /\ calls' = Append(calls, Call("setCorosyncConfig", node0, ok))
        /\ IF ok
           THEN Goto("a_enable") /\ UNCHANGED msgs
           ELSE ErrExit("Unable to set corosync config", node0)

\* lines 1511-1514
AddEnable ==
    /\ Running("add", "a_enable")
    /\ UNCHANGED <<qlog, error_list, idx, updated>>
    /\ Goto("a_start")
    /\ IF "--enable" \in pcs_options
       THEN \E ok \in BOOLEAN :
            /\ calls' = Append(calls, Call("enableCluster", node0, ok))
            /\ msgs' = IF ok THEN msgs
                       ELSE Append(msgs, Msg("warning", "enable cluster", node0))
       ELSE UNCHANGED <<calls, msgs>>

\* a mutant of AddStart: a failed start ends the command
AddStartFailureExits ==
    /\ Running("add", "a_start")
    /\ UNCHANGED <<qlog, error_list, idx, updated>>
    /\ IF "--start" \in pcs_options \/ env.is_rhel6
       THEN \E ok \in BOOLEAN :
            /\ calls' = Append(calls, Call("startCluster", node0, ok))
            /\ IF ok
               THEN Goto("a_certs") /\ UNCHANGED msgs
               ELSE ErrExit("start cluster", node0)
       ELSE Goto("a_certs") /\ UNCHANGED <<calls, msgs>>

\* lines 1515-1520
AddStart ==
    /\ Running("add", "a_start")
    /\ UNCHANGED <<qlog, error_list, idx, updated>>
    /\ Goto("a_certs")
    /\ IF "--start" \in pcs_options \/ env.is_rhel6
       THEN \E ok \in BOOLEAN :
            /\ calls' = Append(calls, Call("startCluster", node0, ok))
            /\ msgs' = IF ok THEN msgs
                       ELSE Append(msgs, Msg("warning", "start cluster", node0))
       ELSE UNCHANGED <<calls, msgs>>

\* line 1522: exit_after_error=False
AddSyncCerts ==
    /\ Running("add", "a_certs")
    /\ UNCHANGED <<qlog, error_list, idx, updated, msgs>>
    /\ \E ok \in BOOLEAN :
        calls' = Append(calls, Call("pcsd_sync_certs", node0, ok))
    /\ Goto("a_wait")

\* lines 1525-1530
AddWait ==
    /\ Running("add", "a_wait")
    /\ UNCHANGED <<qlog, error_list, idx, updated, calls>>
    /\ \E cman_with_udpu \in BOOLEAN, started \in BOOLEAN :
        LET printed == IF cman_with_udpu
                       THEN Append(msgs, Msg("warning",
                                "cluster restart is required to apply node addition",
                                NoNode))
                       ELSE msgs
        IN  IF wait /\ ~started
            THEN /\ msgs' = Append(printed, Msg("error",
                                "unable to verify all nodes have started", node0))
                 /\ outcome' = "fatal"
                 /\ pc' = "done"
            ELSE /\ msgs' = printed
                 /\ Return

(***************************************************************************)
(* stop_cluster_nodes                                                      *)
(***************************************************************************)
\* a mutant of stopping_all: any request for several nodes counts as all
stopping_several(n_list, members) == Len(n_list) > 1

\* line 997
stopping_all(n_list, members) == Range(members) \subseteq Range(n_list)

\* line 998, negated: the quorum loop is not entered
StopCheckSkipped(forced, n_list, members) ==
    forced \/ stopping_all(n_list, members)

\* lines 989-998
StopNodesValidate ==
    /\ Running("stop_nodes", "s_validate")
    /\ UNCHANGED <<qlog, updated, calls>>
    /\ idx' = 1
    /\ error_list' = <<>>
    /\ IF Range(nodes) \ Range(all_nodes) # {}
       THEN ErrExit("nodes do not appear to exist in configuration", NoNode)
       ELSE /\ UNCHANGED msgs
            /\ IF StopCheckSkipped(force, nodes, all_nodes)
               THEN Goto("s_pacemaker")
               ELSE Goto("s_query")

\* a mutant of StopQueryVerdict: a failed query is passed over silently
StopQueryVerdictIgnoringFailure(resp, n_list) ==
    IF resp.retval # 0 THEN "skip"
    ELSE IF resp.parsed
    THEN IF ~resp.info.quorate THEN "skip"
         ELSE IF is_node_stop_cause_quorum_loss(resp.info, FALSE, n_list)
         THEN "loss" ELSE "safe"
    ELSE IF ~resp.offline THEN "unknown"
    ELSE "skip"

\* a mutant of StopQueryVerdict: the loss test is made for the first node
\* of the list only
StopQueryVerdictForFirst(resp, n_list) ==
    IF resp.retval # 0 THEN "failed"
    ELSE IF resp.parsed
    THEN IF ~resp.info.quorate THEN "skip"
         ELSE IF is_node_stop_cause_quorum_loss(resp.info, FALSE,
                     IF n_list = <<>> THEN <<>> ELSE <<n_list[1]>>)
         THEN "loss" ELSE "safe"
    ELSE IF ~resp.offline THEN "unknown"
    ELSE "skip"

\* lines 1001-1028: what the answer of one node leads to
StopQueryVerdict(resp, n_list) ==
    IF resp.retval # 0 THEN "failed"
    ELSE IF resp.parsed
    THEN IF ~resp.info.quorate THEN "skip"
         ELSE IF is_node_stop_cause_quorum_loss(resp.info, FALSE, n_list)
         THEN "loss" ELSE "safe"
    ELSE IF ~resp.offline THEN "unknown"
    ELSE "skip"

\* lines 1000-1028: one pass of the loop over nodes
StopNodesQuery ==
    /\ Running("stop_nodes", "s_query")
    /\ idx <= Len(nodes)
    /\ UNCHANGED <<updated, calls>>
    /\ idx' = idx + 1
    /\ \E resp \in RemoteAnswers(nodes[idx]) :
        /\ qlog' = Append(qlog, [node |-> nodes[idx], resp |-> resp])
        /\ LET verdict == StopQueryVerdict(resp, nodes)
           IN  CASE verdict = "failed" ->
                      /\ error_list' = Append(error_list, "query failed")
                      /\ Goto("s_query") /\ UNCHANGED msgs
                 [] verdict = "unknown" ->
                      /\ error_list' = Append(error_list,
                                              "Unable to get quorum status")
                      /\ Goto("s_query") /\ UNCHANGED msgs
                 [] verdict = "skip" ->
                      /\ Goto("s_query") /\ UNCHANGED <<error_list, msgs>>
                 [] verdict = "loss" ->
                      /\ ErrExit("Stopping the node(s) will cause a loss of the quorum, use --force to override", NoNode)
                      /\ UNCHANGED error_list
                 [] OTHER ->
                      \* we have the info, no need to print errors; break
                      /\ error_list' = <<>>
                      /\ Goto("s_errors") /\ UNCHANGED msgs

\* a mutant of StopNodesCheckErrors: the errors of the quorum loop do not
\* end the command
StopNodesCheckErrorsGoesOn ==
    /\ cmd = "stop_nodes"
    /\ \/ pc = "s_errors"
       \/ pc = "s_query" /\ idx > Len(nodes)
    /\ outcome = "running"
    /\ UNCHANGED <<inputVars, confVars, fanVars, waitVars, parseVars>>
    /\ UNCHANGED <<qlog, error_list, idx, updated, calls>>
    /\ Goto("s_pacemaker")
    /\ IF error_list # <<>>
       THEN msgs' = Append(msgs, Msg("error", "Unable to determine whether stopping the nodes will cause a loss of the quorum, use --force to override", NoNode))
       ELSE UNCHANGED msgs

\* lines 1029-1034
StopNodesCheckErrors ==
    /\ cmd = "stop_nodes"
    /\ \/ pc = "s_errors"
       \/ pc = "s_query" /\ idx > Len(nodes)
    /\ outcome = "running"
    /\ UNCHANGED <<inputVars, confVars, fanVars, waitVars, parseVars>>
    /\ UNCHANGED <<qlog, error_list, idx, updated, calls>>
    /\ IF error_list # <<>>
       THEN ErrExit("Unable to determine whether stopping the nodes will cause a loss of the quorum, use --force to override", NoNode)
       ELSE Goto("s_pacemaker") /\ UNCHANGED msgs

\* a mutant of StopNodesPacemaker: the error list of the pacemaker batch
\* is printed and the command goes on
StopNodesPacemakerGoesOn ==
    /\ Running("stop_nodes", "s_pacemaker")
    /\ UNCHANGED <<qlog, error_list, idx, updated>>
    /\ \E failing \in SUBSET Range(nodes) :
        /\ calls' = calls \o FanoutCalls("stopPacemaker", nodes, failing)
        /\ Goto("s_corosync")
        /\ IF FanoutErrors(nodes, failing) # <<>>
           THEN msgs' = Append(msgs,
                    Msg("error", "unable to stop all nodes", NoNode))
           ELSE UNCHANGED msgs

\* lines 1036-1038
StopNodesPacemaker ==
    /\ Running("stop_nodes", "s_pacemaker")
    /\ UNCHANGED <<qlog, error_list, idx, updated>>
    /\ \E failing \in SUBSET Range(nodes) :
        /\ calls' = calls \o FanoutCalls("stopPacemaker", nodes, failing)
        /\ IF FanoutErrors(nodes, failing) # <<>>
           THEN ErrExit("unable to stop all nodes", NoNode)
           ELSE Goto("s_corosync") /\ UNCHANGED msgs

\* lines 1040-1042
StopNodesCorosync ==
    /\ Running("stop_nodes", "s_corosync")
    /\ UNCHANGED <<qlog, error_list, idx, updated>>
    /\ \E failing \in SUBSET Range(nodes) :
        /\ calls' = calls \o FanoutCalls("stopCorosync", nodes, failing)
        /\ IF FanoutErrors(nodes, failing) # <<>>
           THEN ErrExit("unable to stop all nodes", NoNode)
           ELSE Return /\ UNCHANGED msgs

(***************************************************************************)
(* stop_cluster without node arguments                                     *)
(***************************************************************************)
\* a mutant of LocalQuorumVerdict: the result of the loss test is dropped
LocalQuorumVerdictNoLoss(resp) ==
    IF resp.parsed THEN "proceed"
    ELSE IF ~resp.offline THEN "undetermined"
    ELSE "proceed"

\* lines 1120-1131
LocalQuorumVerdict(resp) ==
    IF resp.parsed
    THEN IF is_node_stop_cause_quorum_loss(resp.info, TRUE, <<>>)
         THEN "loss" ELSE "proceed"
    ELSE IF ~resp.offline THEN "undetermined"
    ELSE "proceed"

\* lines 1103-1131
StopLocalQuorumCheck ==
    /\ Running("stop_local", "l_quorum")
    /\ UNCHANGED <<error_list, idx, updated, calls>>
    /\ IF force
       THEN Goto("l_pacemaker") /\ UNCHANGED <<qlog, msgs>>
       ELSE \E resp \in LocalAnswers(LocalNode) :
            /\ qlog' = Append(qlog, [node |-> LocalNode, resp |-> resp])
            /\ LET verdict == LocalQuorumVerdict(resp)
               IN  CASE verdict = "undetermined" ->
                          ErrExit("Unable to determine whether stopping the node will cause a loss of the quorum, use --force to override", NoNode)
                     [] verdict = "loss" ->
                          ErrExit("Stopping the node will cause a loss of the quorum, use --force to override", NoNode)
                     [] OTHER ->
                          Goto("l_pacemaker") /\ UNCHANGED msgs

\* lines 1133-1137
stop_all ==
    "--pacemaker" \notin pcs_options /\ "--corosync" \notin pcs_options

\* lines 1138-1139 and stop_cluster_pacemaker
StopLocalPacemaker ==
    /\ Running("stop_local", "l_pacemaker")
    /\ UNCHANGED <<qlog, error_list, updated>>
    /\ idx' = 1
    /\ IF stop_all \/ "--pacemaker" \in pcs_options
       THEN \E ok \in BOOLEAN :
            /\ calls' = Append(calls, Call("service stop", "pacemaker", ok))
            /\ IF ok
               THEN Goto("l_corosync") /\ UNCHANGED msgs
               ELSE ErrExit("unable to stop pacemaker", NoNode)
       ELSE Goto("l_corosync") /\ UNCHANGED <<calls, msgs>>

\* stop_cluster_corosync: the services stopped, in order
service_list ==
    IF ~(stop_all \/ "--corosync" \in pcs_options) THEN <<>>
    ELSE IF env.is_rhel6 THEN <<"cman">>
    ELSE (IF env.qdevice THEN <<"corosync-qdevice">> ELSE <<>>)
         \o <<"corosync">>

\* lines 1140-1141 and stop_cluster_corosync: one service
StopLocalCorosync ==
    /\ Running("stop_local", "l_corosync")
    /\ idx <= Len(service_list)
    /\ UNCHANGED <<qlog, error_list, updated>>
    /\ idx' = idx + 1
    /\ \E ok \in BOOLEAN :
        /\ calls' = Append(calls, Call("service stop", service_list[idx], ok))
        /\ IF ok
           THEN Goto("l_corosync") /\ UNCHANGED msgs
           ELSE ErrExit("unable to stop service", NoNode)

\* stop_cluster returns
StopLocalReturn ==
    /\ Running("stop_local", "l_corosync")
    /\ idx > Len(service_list)
    /\ UNCHANGED <<qlog, error_list, idx, updated, calls, msgs>>
    /\ Return

(***************************************************************************)
(* start_cluster / start_cluster_all with nodes, enable_cluster_nodes,     *)
(* disable_cluster_nodes                                                   *)
(***************************************************************************)
\* start_cluster lines 871-873
start_wait == "--wait" \in pcs_options

\* a mutant of FleetFailed: a single failing node is tolerated
FleetFailedSeveral(errors) == Len(errors) > 1

\* lines 922, 1072, 1077: the error list of the batch is not empty
FleetFailed(errors) == errors # <<>>

\* start_cluster_nodes, lines 920-923, called at 876 or 915
StartNodes ==
    /\ Running("start_nodes", "f_run")
    /\ UNCHANGED <<qlog, error_list, idx, updated>>
    /\ \E failing \in SUBSET Range(nodes) :
        /\ calls' = calls \o FanoutCalls("startCluster", nodes, failing)
        /\ IF FleetFailed(FanoutErrors(nodes, failing))
           THEN ErrExit("unable to start all nodes", NoNode)
           ELSE /\ UNCHANGED msgs
                /\ IF start_wait THEN Goto("f_wait") ELSE Return

\* lines 877-878 and 917-918: wait_for_nodes_started(nodes, wait_timeout)
StartNodesWait ==
    /\ Running("start_nodes", "f_wait")
    /\ UNCHANGED <<qlog, error_list, idx, updated, calls>>
    /\ \E started \in BOOLEAN :
        IF started
        THEN Return /\ UNCHANGED msgs
        ELSE ErrExit("unable to verify all nodes have started", NoNode)

\* enable_cluster_nodes, lines 1070-1073
EnableNodes ==
    /\ Running("enable_nodes", "f_run")
    /\ UNCHANGED <<qlog, error_list, idx, updated>>
    /\ \E failing \in SUBSET Range(nodes) :
        /\ calls' = calls \o FanoutCalls("enableCluster", nodes, failing)
        /\ IF FleetFailed(FanoutErrors(nodes, failing))
           THEN ErrExit("unable to enable all nodes", NoNode)
           ELSE Return /\ UNCHANGED msgs

\* disable_cluster_nodes, lines 1075-1078
DisableNodes ==
    /\ Running("disable_nodes", "f_run")
    /\ UNCHANGED <<qlog, error_list, idx, updated>>
    /\ \E failing \in SUBSET Range(nodes) :
        /\ calls' = calls \o FanoutCalls("disableCluster", nodes, failing)
        /\ IF FleetFailed(FanoutErrors(nodes, failing))
           THEN ErrExit("unable to disable all nodes", NoNode)
           ELSE Return /\ UNCHANGED msgs

(***************************************************************************)
(* cluster_destroy and destroy_cluster                                     *)
(***************************************************************************)
\* cluster_destroy lines 1795-1829: the steps of the local teardown, the
\* loop over state_files counted as one
DestroySteps(is_rhel6) ==
    <<"service pacemaker stop", "service corosync-qdevice stop",
      "service corosync stop", "killall", "utils.disableServices",
      "disable_service sbd",
      IF is_rhel6 THEN "rm cluster.conf" ELSE "rm corosync.conf",
      "rm state_files", "qdevice_net.client_destroy">>

\* a mutant of LocalDestroyCalls: the teardown stops at the first step
\* that fails
LocalDestroyCallsUntilFailure(steps, failing) ==
    LET firstbad == IF failing = {} THEN Len(steps)
                    ELSE CHOOSE i \in failing : \A j \in failing : i <= j
    IN  [i \in 1..firstbad |-> Call(steps[i], LocalNode, i \notin failing)]

\* lines 1795-1829: no return value of os.system is looked at and every
\* exception is caught and dropped
LocalDestroyCalls(steps, failing) ==
    [i \in 1..Len(steps) |-> Call(steps[i], LocalNode, i \notin failing)]

\* cluster_destroy without --all, lines 1795-1829
DestroyLocal ==
    /\ Running("destroy", "d_run")
    /\ "--all" \notin pcs_options
    /\ UNCHANGED <<qlog, error_list, idx, updated, msgs>>
    /\ \E failing \in SUBSET (1..Len(DestroySteps(env.is_rhel6))) :
        calls' = calls \o LocalDestroyCalls(DestroySteps(env.is_rhel6), failing)
    /\ Return

\* cluster_destroy with --all, lines 1792-1793
DestroyAll ==
    /\ Running("destroy", "d_run")
    /\ "--all" \in pcs_options
    /\ UNCHANGED <<qlog, error_list, idx, updated, calls, msgs>>
    /\ Goto("dc_stop")

\* the argv of destroy_cluster: line 1793 or line 376
DestroyTargets == IF cmd = "destroy" THEN all_nodes ELSE nodes

\* destroy_cluster lines 1081-1084, called from cluster_destroy or
\* cluster_setup
DestroyNodesStop ==
    /\ cmd \in {"destroy", "setup"}
    /\ pc = "dc_stop"
    /\ outcome = "running"
    /\ UNCHANGED <<inputVars, confVars, fanVars, waitVars, parseVars>>
    /\ UNCHANGED <<qlog, error_list, idx, updated, msgs>>
    /\ IF Len(DestroyTargets) > 0
       THEN /\ \E failing \in SUBSET Range(DestroyTargets) :
                 calls' = calls \o FanoutCalls("stopPacemaker", DestroyTargets,
                                               failing)
            /\ Goto("dc_destroy")
       ELSE /\ UNCHANGED calls
            /\ IF cmd = "destroy" THEN Return ELSE Goto("st_pcsd")

\* destroy_cluster lines 1085-1096 with keep_going = False
DestroyNodesDestroy ==
    /\ cmd \in {"destroy", "setup"}
    /\ pc = "dc_destroy"
    /\ outcome = "running"
    /\ UNCHANGED <<inputVars, confVars, fanVars, waitVars, parseVars>>
    /\ UNCHANGED <<qlog, error_list, idx, updated>>
    /\ \E failing \in SUBSET Range(DestroyTargets) :
        /\ calls' = calls \o FanoutCalls("destroyCluster", DestroyTargets,
                                         failing)
        /\ IF FanoutErrors(DestroyTargets, failing) = <<>>
           THEN /\ UNCHANGED msgs
                /\ IF cmd = "destroy" THEN Return ELSE Goto("st_pcsd")
           ELSE IF DestroyFailure(FALSE) = "warn"
           THEN /\ msgs' = Append(msgs,
                        Msg("warning", "unable to destroy cluster", NoNode))
                /\ IF cmd = "destroy" THEN Return ELSE Goto("st_pcsd")
           ELSE ErrExit("unable to destroy cluster", NoNode)

(***************************************************************************)
(* cluster_setup                                                           *)
(***************************************************************************)
\* a mutant of SetupUnresolvableExits: an unresolvable hostname is only
\* ever warned about
SetupUnresolvableWarns(nodes_unresolvable, forced) == FALSE

\* lines 284-285
SetupUnresolvableExits(nodes_unresolvable, forced) ==
    nodes_unresolvable /\ ~forced

\* lines 233-318: addresses, options and the config text
SetupValidate ==
    /\ Running("setup", "st_validate")
    /\ UNCHANGED <<qlog, error_list, updated, calls>>
    /\ idx' = 1
    /\ \E rrp_mismatch \in BOOLEAN, nodes_unresolvable \in BOOLEAN,
          options_error \in BOOLEAN, config_error \in BOOLEAN :
        LET warned == IF nodes_unresolvable
                      THEN Append(msgs, Msg("warning",
                                      "Unable to resolve hostname", NoNode))
                      ELSE msgs
            exit(text) == /\ msgs' = Append(warned, Msg("error", text, NoNode))
                          /\ outcome' = "fatal"
                          /\ pc' = "done"
        IN  IF rrp_mismatch
            THEN ErrExit("if one node is configured for RRP, all nodes must be configured for RRP", NoNode)
            ELSE IF SetupUnresolvableExits(nodes_unresolvable, force)
            THEN exit("Unable to resolve all hostnames, use --force to override")
            ELSE IF options_error
            THEN exit("invalid options")
            ELSE IF config_error
            THEN exit("invalid config")
            ELSE /\ msgs' = warned
                 /\ IF "--local" \in pcs_options
                    THEN Goto("st_lcheck")
                    ELSE Goto("st_avail")

\* a mutant of config_path_overriden: either option counts on either kind
\* of cluster
config_path_given(is_rhel6, options) ==
    "--cluster_conf" \in options \/ "--corosync_conf" \in options

\* lines 329-333
config_path_overriden(is_rhel6, options) ==
    \/ is_rhel6 /\ "--cluster_conf" \in options
    \/ ~is_rhel6 /\ "--corosync_conf" \in options

\* lines 321-346 up to the call of cluster_destroy
SetupLocalCheck ==
    /\ Running("setup", "st_lcheck")
    /\ UNCHANGED <<qlog, error_list, idx, updated, calls>>
    /\ IF ~force /\ env.config_exists
       THEN ErrExit("config file already exists, use --force to overwrite",
                    NoNode)
       ELSE IF config_path_overriden(env.is_rhel6, pcs_options)
       THEN Goto("st_write") /\ UNCHANGED msgs
       ELSE IF ~force /\ env.cib_exists
       THEN ErrExit("cib.xml already exists, use --force to overwrite", NoNode)
       ELSE Goto("st_ldestroy") /\ UNCHANGED msgs

\* line 346: cluster_destroy([]), where no step or every step fails
SetupLocalDestroy ==
    /\ Running("setup", "st_ldestroy")
    /\ UNCHANGED <<qlog, error_list, idx, updated, msgs>>
    /\ \E failing \in {{}, 1..Len(DestroySteps(env.is_rhel6))} :
        calls' = calls \o LocalDestroyCalls(DestroySteps(env.is_rhel6), failing)
    /\ Goto("st_write")

\* line 349; utils.setCorosyncConf ends the command when it cannot write
SetupLocalWrite ==
    /\ Running("setup", "st_write")
    /\ UNCHANGED <<qlog, error_list, idx, updated>>
    /\ \E ok \in BOOLEAN :
        /\ calls' = Append(calls, Call("setCorosyncConf", LocalNode, ok))
        /\ IF ok
           THEN Goto("st_lstart") /\ UNCHANGED msgs
           ELSE ErrExit("unable to write config", NoNode)

\* start_cluster lines 882-898: the services started, in order
start_service_list ==
    (IF env.is_rhel6 THEN <<"cman">>
     ELSE <<"corosync">>
          \o (IF env.qdevice THEN <<"corosync-qdevice">> ELSE <<>>))
    \o <<"pacemaker">>

\* a mutant of StartCalls: the services after the failed one are started
\* as well
StartCallsPastFailure(services, k) ==
    [i \in 1..Len(services) |-> Call("service start", services[i], i # k)]

\* the service starts made when the k-th fails (k = 0: none fails)
StartCalls(services, k) ==
    [i \in 1..(IF k = 0 THEN Len(services) ELSE k) |->
        Call("service start", services[i], i # k)]

\* lines 350-351: start_cluster([]), lines 881-905
SetupLocalStart ==
    /\ Running("setup", "st_lstart")
    /\ UNCHANGED <<qlog, error_list, idx, updated>>
    /\ IF "--start" \in pcs_options
       THEN \E k \in 0..Len(start_service_list), started \in BOOLEAN :
            /\ calls' = calls \o StartCalls(start_service_list, k)
            /\ IF k # 0
               THEN ErrExit("unable to start service", NoNode)
               ELSE IF start_wait /\ ~started
               THEN ErrExit("Waiting timeout", NoNode)
               ELSE Goto("st_lenable") /\ UNCHANGED msgs
       ELSE Goto("st_lenable") /\ UNCHANGED <<calls, msgs>>

\* lines 352-353: enable_cluster([]), lines 1049-1052
SetupLocalEnable ==
    /\ Running("setup", "st_lenable")
    /\ UNCHANGED <<qlog, error_list, idx, updated>>
    /\ IF "--enable" \in pcs_options
       THEN \E ok \in BOOLEAN :
            /\ calls' = Append(calls, Call("enableServices", LocalNode, ok))
            /\ IF ok
               THEN Goto("st_lwait") /\ UNCHANGED msgs
               ELSE ErrExit("unable to enable services", NoNode)
       ELSE Goto("st_lwait") /\ UNCHANGED <<calls, msgs>>

\* lines 354-355
SetupLocalWait ==
    /\ Running("setup", "st_lwait")
    /\ UNCHANGED <<qlog, error_list, idx, updated, calls>>
    /\ \E started \in BOOLEAN :
        IF wait /\ ~started
        THEN ErrExit("Waiting timeout", NoNode)
        ELSE Return /\ UNCHANGED msgs

\* the calls of utils.canAddNodeToCluster, lines 363-364
AvailabilityChecks(n_list, unavailable) ==
    [i \in 1..Len(n_list) |->
        Call("canAddNodeToCluster", n_list[i], n_list[i] \notin unavailable)]

\* lines 365-367: one error per node that is not available
AvailabilityErrors(n_list, unavailable) ==
    LET bad == SelectSeq(n_list, LAMBDA n : n \in unavailable)
    IN  [i \in 1..Len(bad) |-> Msg("error", "node is not available", bad[i])]

\* a mutant of all_nodes_available: one available node is enough
some_node_available(n_list, unavailable) ==
    \E i \in 1..Len(n_list) : n_list[i] \notin unavailable

\* lines 362-366
all_nodes_available(n_list, unavailable) ==
    \A i \in 1..Len(n_list) : n_list[i] \notin unavailable

\* lines 361-372
SetupAvailCheck ==
    /\ Running("setup", "st_avail")
    /\ UNCHANGED <<qlog, error_list, idx, updated>>
    /\ IF force
       THEN Goto("dc_stop") /\ UNCHANGED <<calls, msgs>>
       ELSE \E unavailable \in SUBSET Range(nodes) :
            /\ calls' = calls \o AvailabilityChecks(nodes, unavailable)
            /\ IF all_nodes_available(nodes, unavailable)
               THEN /\ msgs' = msgs \o AvailabilityErrors(nodes, unavailable)
                    /\ Goto("dc_stop")
               ELSE /\ msgs' = Append(
                           msgs \o AvailabilityErrors(nodes, unavailable),
                           Msg("error", "nodes availability check failed, use --force to override", NoNode))
                    /\ outcome' = "fatal"
                    /\ pc' = "done"

\* what a node is found to have answered in output["data"]
PcsdNodeResponses == {"ok", "not_supported", "notauthorized", "error", "missing"}

\* utils.run_pcsdcli("send_local_configs", pcsd_data): ok is
\* retval == 0 and output["status"] == "ok" and output["data"]
SetupPcsdResults(n_list) ==
    {[ok |-> FALSE, data |-> [i \in 1..Len(n_list) |-> "missing"]]}
    \cup {[ok |-> TRUE, data |-> d] :
            d \in [1..Len(n_list) -> PcsdNodeResponses]}

\* lines 392-400: the messages one node response adds
PcsdNodeMessages(response, node) ==
    (IF response = "notauthorized"
     THEN <<Msg("warning", "Unable to authenticate", node)>> ELSE <<>>)
    \o (IF response \notin {"ok", "not_supported"}
        THEN <<Msg("warning", "Unable to set pcsd configs on node", node)>>
        ELSE <<>>)

\* lines 389-402: the loop over primary_addr_list inside try/except
RECURSIVE PcsdLoopMessages(_, _, _)
PcsdLoopMessages(data, n_list, i) ==
    IF i > Len(n_list) THEN <<>>
    ELSE IF data[i] = "missing"
    THEN <<Msg("warning", "Unable to communicate with pcsd", NoNode)>>
    ELSE PcsdNodeMessages(data[i], n_list[i])
         \o PcsdLoopMessages(data, n_list, i + 1)

\* lines 386-406: err_msgs, each printed as a warning
SetupPcsdWarnings(result, n_list) ==
    IF result.ok
    THEN PcsdLoopMessages(result.data, n_list, 1)
    ELSE <<Msg("warning", "Unable to set pcsd configs", NoNode)>>

\* a mutant of SetupPcsdFailureExits: the failure ends the setup as it
\* ends "node add"
SetupPcsdFailureIsFatal(warnings) == warnings # <<>>

\* lines 405-406: err_msgs are printed, nothing exits
SetupPcsdFailureExits(warnings) == FALSE

\* lines 379-406
SetupSendPcsdConfigs ==
    /\ Running("setup", "st_pcsd")
    /\ UNCHANGED <<qlog, error_list, updated>>
    /\ idx' = 1
    /\ \E result \in SetupPcsdResults(nodes) :
        LET warnings == SetupPcsdWarnings(result, nodes)
        IN  /\ calls' = Append(calls, Call("send_local_configs", NoNode,
                                            warnings = <<>>))
            /\ msgs' = msgs \o warnings
            /\ IF SetupPcsdFailureExits(warnings)
               THEN pc' = "done" /\ outcome' = "fatal"
               ELSE Goto("st_push")

\* lines 409-410, one pass; utils.setCorosyncConfig ends the command when
\* the node does not take the config
SetupPush ==
    /\ Running("setup", "st_push")
    /\ idx <= Len(nodes)
    /\ UNCHANGED <<qlog, error_list, updated>>
    /\ idx' = idx + 1
    /\ \E ok \in BOOLEAN :
        /\ calls' = Append(calls, Call("setCorosyncConfig", nodes[idx], ok))
        /\ IF ok
           THEN Goto("st_push") /\ UNCHANGED msgs
           ELSE ErrExit("Unable to set corosync config", nodes[idx])

\* lines 413-417
SetupStartNodes ==
    /\ Running("setup", "st_push")
    /\ idx > Len(nodes)
    /\ UNCHANGED <<qlog, error_list, idx, updated>>
    /\ IF "--start" \in pcs_options
       THEN \E failing \in SUBSET Range(nodes) :
            /\ calls' = calls \o FanoutCalls("startCluster", nodes, failing)
            /\ IF FleetFailed(FanoutErrors(nodes, failing))
               THEN ErrExit("unable to start all nodes", NoNode)
               ELSE Goto("st_enable") /\ UNCHANGED msgs
       ELSE Goto("st_enable") /\ UNCHANGED <<calls, msgs>>

\* lines 418-419
SetupEnableNodes ==
    /\ Running("setup", "st_enable")
    /\ UNCHANGED <<qlog, error_list, idx, updated>>
    /\ IF "--enable" \in pcs_options
       THEN \E failing \in SUBSET Range(nodes) :
            /\ calls' = calls \o FanoutCalls("enableCluster", nodes, failing)
            /\ IF FleetFailed(FanoutErrors(nodes, failing))
               THEN ErrExit("unable to enable all nodes", NoNode)
               ELSE Goto("st_certs") /\ UNCHANGED msgs
       ELSE Goto("st_certs") /\ UNCHANGED <<calls, msgs>>

\* lines 421-423: exit_after_error=False
SetupSyncCerts ==
    /\ Running("setup", "st_certs")
    /\ UNCHANGED <<qlog, error_list, idx, updated, msgs>>
    /\ \E ok \in BOOLEAN :
        calls' = Append(calls, Call("pcsd_sync_certs", NoNode, ok))
    /\ Goto("st_wait")

\* a mutant of SetupWaitNodes: the start of the nodes is waited for
\* whenever --wait is given
SetupWaitNodesWhenAsked ==
    /\ Running("setup", "st_wait")
    /\ UNCHANGED <<qlog, error_list, idx, updated, calls>>
    /\ \E started \in BOOLEAN :
        IF "--wait" \in pcs_options /\ ~started
        THEN ErrExit("unable to verify all nodes have started", NoNode)
        ELSE Return /\ UNCHANGED msgs

\* lines 424-426
SetupWaitNodes ==
    /\ Running("setup", "st_wait")
    /\ UNCHANGED <<qlog, error_list, idx, updated, calls>>
    /\ \E started \in BOOLEAN :
        IF wait /\ ~started
        THEN ErrExit("unable to verify all nodes have started", NoNode)
        ELSE Return /\ UNCHANGED msgs

(***************************************************************************)
(* One run of one command                                                  *)
(***************************************************************************)
\* no batch is run
FanIdle ==
    /\ fan_pc = "done"
    /\ fan_nodes = <<>>
    /\ fan_failing = {}
    /\ fan_state = <<>>
    /\ fan_finished = <<>>
    /\ fan_results = <<>>

\* nothing is waited for
WaitIdle ==
    /\ w_pc = "done"
    /\ w_nodes = <<>>
    /\ stop_at = 0
    /\ w_state = <<>>
    /\ w_wake = <<>>
    /\ w_last = <<>>
    /\ w_late = <<>>
    /\ w_polls = <<>>
    /\ w_result = <<>>
    /\ w_msgs = <<>>
    /\ w_outcome = "ok"

\* nothing is parsed
ParseIdle ==
    /\ p_pc = "done"
    /\ p_options = EmptyDict
    /\ p_force = FALSE
    /\ p_udpu_rrp = FALSE
    /\ p_corosync = NoParse
    /\ p_cman = NoParse
    /\ p_conf = NoConf
    /\ p_commands = NoCommands

NoEnv ==
    [is_rhel6 |-> FALSE, need_ring1_address |-> FALSE, node1 |-> FALSE,
     qdevice |-> FALSE, config_exists |-> FALSE, cib_exists |-> FALSE]

NoTruth == [quorum |-> 1, online |-> {LocalNode}]

Memberships == {Members(k) : k \in 0..MaxNodes}

\* nothing has run yet
Fresh ==
    /\ qlog = <<>>
    /\ error_list = <<>>
    /\ idx = 1
    /\ updated = FALSE
    /\ calls = <<>>
    /\ msgs = <<>>
    /\ outcome = "running"

\* no command is run
CmdIdle ==
    /\ cmd = "none"
    /\ pc = "done"
    /\ pcs_options = {}
    /\ env = NoEnv
    /\ all_nodes = <<>>
    /\ node0 = NoNode
    /\ nodes = <<>>
    /\ truth = NoTruth
    /\ Fresh

InitRemove ==
    /\ cmd = "remove"
    /\ pc = "r_validate"
    /\ pcs_options \in SUBSET {"--force"}
    /\ env = NoEnv
    /\ all_nodes \in Memberships
    /\ node0 \in Nodes
    /\ nodes = <<>>
    /\ truth \in Truths

InitAdd ==
    /\ cmd = "add"
    /\ pc = "a_validate"
    /\ pcs_options \in SUBSET {"--force", "--enable", "--start", "--wait"}
    /\ env \in [is_rhel6 : BOOLEAN, need_ring1_address : BOOLEAN,
                node1 : BOOLEAN, qdevice : {FALSE},
                config_exists : {FALSE}, cib_exists : {FALSE}]
    /\ all_nodes \in Memberships
    /\ node0 = NewNode
    /\ nodes = <<>>
    /\ truth = NoTruth

InitStopNodes ==
    /\ cmd = "stop_nodes"
    /\ pc = "s_validate"
    /\ pcs_options \in SUBSET {"--force"}
    /\ env = NoEnv
    /\ all_nodes \in Memberships
    /\ node0 = NoNode
    /\ nodes \in SeqsUpTo(Nodes, MaxTargets) \ {<<>>}
    /\ truth \in Truths

\* start, enable or disable with node arguments or --all
InitFleet ==
    /\ cmd \in {"start_nodes", "enable_nodes", "disable_nodes"}
    /\ pc = "f_run"
    /\ pcs_options \in SUBSET {"--wait"}
    /\ env = NoEnv
    /\ all_nodes = Members(MaxNodes)
    /\ node0 = NoNode
    /\ nodes \in SeqsUpTo(Nodes, MaxTargets) \ {<<>>}
    /\ truth = NoTruth

InitDestroy ==
    /\ cmd = "destroy"
    /\ pc = "d_run"
    /\ pcs_options \in SUBSET {"--all"}
    /\ env \in [is_rhel6 : BOOLEAN, need_ring1_address : {FALSE},
                node1 : {FALSE}, qdevice : {FALSE},
                config_exists : {FALSE}, cib_exists : {FALSE}]
    /\ all_nodes \in Memberships
    /\ node0 = NoNode
    /\ nodes = <<>>
    /\ truth = NoTruth

\* what "setup" is asked to do after the config is in place
SetupFollowUps ==
    {{}, {"--start"}, {"--enable"}, {"--wait"}, {"--start", "--wait"},
     {"--start", "--enable", "--wait"}}

\* setup --local
InitSetupLocal ==
    /\ cmd = "setup"
    /\ pc = "st_validate"
    /\ \E forced \in SUBSET {"--force"},
          path \in {{}, {"--corosync_conf"}, {"--cluster_conf"}},
          follow \in {{}, {"--start", "--enable", "--wait"}} :
            pcs_options = {"--local"} \cup forced \cup path \cup follow
    /\ env \in [is_rhel6 : BOOLEAN, need_ring1_address : {FALSE},
                node1 : {FALSE}, qdevice : BOOLEAN,
                config_exists : BOOLEAN, cib_exists : BOOLEAN]
    /\ all_nodes = <<>>
    /\ node0 = NoNode
    /\ nodes = Members(1)
    /\ truth = NoTruth

\* setup of the nodes given, which are not in a cluster yet
InitSetupNodes ==
    /\ cmd = "setup"
    /\ pc = "st_validate"
    /\ \E forced \in SUBSET {"--force"}, follow \in SetupFollowUps :
            pcs_options = forced \cup follow
    /\ env = NoEnv
    /\ all_nodes = <<>>
    /\ node0 = NoNode
    /\ nodes \in {Members(k) : k \in 1..MaxTargets}
    /\ truth = NoTruth

InitStopLocal ==
    /\ cmd = "stop_local"
    /\ pc = "l_quorum"
    /\ pcs_options \in SUBSET {"--force", "--pacemaker", "--corosync"}
    /\ env \in [is_rhel6 : BOOLEAN, need_ring1_address : {FALSE},
                node1 : {FALSE}, qdevice : BOOLEAN,
                config_exists : {FALSE}, cib_exists : {FALSE}]
    /\ all_nodes = Members(MaxNodes)
    /\ node0 = NoNode
    /\ nodes = <<>>
    /\ truth \in Truths

ConfIdle ==
    /\ cpc = "built"
    /\ node_list = <<>>
    /\ transport_options = EmptyDict
    /\ totem_options = EmptyDict
    /\ quorum_options = EmptyDict
    /\ corosync_conf = NoConf

Init ==
    /\ ConfIdle
    /\ FanIdle
    /\ WaitIdle
    /\ ParseIdle
    /\ Fresh
    /\ \/ InitRemove
       \/ InitAdd
       \/ InitStopNodes
       \/ InitStopLocal
       \/ InitFleet
       \/ InitDestroy
       \/ InitSetupLocal
       \/ InitSetupNodes

Next ==
    \/ RemoveValidate
    \/ RemoveQuorumCheck
    \/ RemoveStopTarget
    \/ RemoveDestroyTarget
    \/ RemovePush
    \/ RemoveCheckUpdated
    \/ RemoveReload
    \/ RemoveEvict
    \/ AddValidate
    \/ AddAuxSync
    \/ AddPush
    \/ AddReload
    \/ AddCheckUpdated
    \/ AddSendPcsdConfigs
    \/ AddQdevice
    \/ AddSetCorosyncConfig
    \/ AddEnable
    \/ AddStart
    \/ AddSyncCerts
    \/ AddWait
    \/ StopNodesValidate
    \/ StopNodesQuery
    \/ StopNodesCheckErrors
    \/ StopNodesPacemaker
    \/ StopNodesCorosync
    \/ StopLocalQuorumCheck
    \/ StopLocalPacemaker
    \/ StopLocalCorosync
    \/ StopLocalReturn
    \/ StartNodes
    \/ StartNodesWait
    \/ EnableNodes
    \/ DisableNodes
    \/ DestroyLocal
    \/ DestroyAll
    \/ DestroyNodesStop
    \/ DestroyNodesDestroy
    \/ SetupValidate
    \/ SetupLocalCheck
    \/ SetupLocalDestroy
    \/ SetupLocalWrite
    \/ SetupLocalStart
    \/ SetupLocalEnable
    \/ SetupLocalWait
    \/ SetupAvailCheck
    \/ SetupSendPcsdConfigs
    \/ SetupPush
    \/ SetupStartNodes
    \/ SetupEnableNodes
    \/ SetupSyncCerts
    \/ SetupWaitNodes

Spec == Init /\ [][Next]_vars

(***************************************************************************)
(* parallel_for_nodes(action, node_list, ...): one worker per entry of     *)
(* node_list, at most MaxWorkers of them running at a time; the batch      *)
(* returns when every worker has finished.                                 *)
(***************************************************************************)
Result(node, success) == [node |-> node, success |-> success]

Positions == 1..Len(fan_nodes)

RunningWorkers == {i \in Positions : fan_state[i] = "running"}

\* a mutant of ResultOrder: results are kept in the order of completion
CompletionOrder(n_list, finished) == finished

\* the order of the result list: the order of the input node list
ResultOrder(n_list, finished) == [i \in 1..Len(n_list) |-> i]

\* the result list of a finished batch
CollectResults(n_list, failing, finished) ==
    LET order == ResultOrder(n_list, finished)
    IN  [k \in 1..Len(order) |->
            Result(n_list[order[k]], order[k] \notin failing)]

FanInit ==
    /\ fan_pc = "running"
    /\ fan_nodes \in SeqsUpTo(Nodes, MaxFanNodes)
    /\ fan_failing \in SUBSET (1..Len(fan_nodes))
    /\ fan_state = [i \in 1..Len(fan_nodes) |-> "queued"]
    /\ fan_finished = <<>>
    /\ fan_results = <<>>
    /\ ConfIdle
    /\ CmdIdle
    /\ WaitIdle
    /\ ParseIdle

\* a worker takes the next free slot, in any order
FanStart(i) ==
    /\ fan_pc = "running"
    /\ fan_state[i] = "queued"
    /\ Cardinality(RunningWorkers) < MaxWorkers
    /\ fan_state' = [fan_state EXCEPT ![i] = "running"]
    /\ UNCHANGED <<fan_pc, fan_nodes, fan_failing, fan_finished, fan_results>>
    /\ UNCHANGED <<confVars, cmdVars, waitVars, parseVars>>

\* the action of a worker returns
FanFinish(i) ==
    /\ fan_pc = "running"
    /\ fan_state[i] = "running"
    /\ fan_state' = [fan_state EXCEPT ![i] = "finished"]
    /\ fan_finished' = Append(fan_finished, i)
    /\ UNCHANGED <<fan_pc, fan_nodes, fan_failing, fan_results>>
    /\ UNCHANGED <<confVars, cmdVars, waitVars, parseVars>>

\* every worker has finished: the batch returns
FanReturn ==
    /\ fan_pc = "running"
    /\ \A i \in Positions : fan_state[i] = "finished"
    /\ fan_results' = CollectResults(fan_nodes, fan_failing, fan_finished)
    /\ fan_pc' = "done"
    /\ UNCHANGED <<fan_nodes, fan_failing, fan_state, fan_finished>>
    /\ UNCHANGED <<confVars, cmdVars, waitVars, parseVars>>

FanNext ==
    \/ \E i \in Positions : FanStart(i)
    \/ \E i \in Positions : FanFinish(i)
    \/ FanReturn

SpecFanout == FanInit /\ [][FanNext]_vars

(***************************************************************************)
(* The config builder applied to every input                               *)
(***************************************************************************)
ConfInit ==
    /\ cpc = "input"
    /\ node_list \in SeqsUpTo(NodeOptionDicts, MaxConfNodes)
    /\ transport_options \in TransportOptionDicts
    /\ totem_options \in TotemOptionDicts
    /\ quorum_options \in QuorumOptionDicts
    /\ corosync_conf = NoConf
    /\ CmdIdle
    /\ FanIdle
    /\ WaitIdle
    /\ ParseIdle

CreateCorosyncConf ==
    /\ cpc = "input"
    /\ cpc' = "built"
    /\ corosync_conf' = create_corosync_conf("cluster", node_list,
                            transport_options, totem_options, quorum_options)
    /\ UNCHANGED <<node_list, transport_options, totem_options, quorum_options>>
    /\ UNCHANGED <<cmdVars, fanVars, waitVars, parseVars>>

ConfNext == CreateCorosyncConf

SpecConf == ConfInit /\ [][ConfNext]_vars

(***************************************************************************)
(* wait_for_nodes_started(node_list, timeout): one waiter for the local    *)
(* node when node_list is empty, else one waiter per node in a batch of    *)
(* parallel_for_nodes.  Time is counted in seconds from the call; each     *)
(* waiter reads the clock when it makes its status query.                  *)
(***************************************************************************)
\* line 969
interval == 2

\* the times a status query can be made at when the sleep before it ends
\* at time t
PollTimes(t) == t..(t + MaxLag)

Waiters == IF w_nodes = <<>> THEN {1} ELSE 1..Len(w_nodes)

\* a node status: a dict that may hold "online" and "pending"
NodeStatuses == DictsOver({"online", "pending"}, BOOLEAN)

\* no status query has been made yet
NoAnswer == [code |-> -1, raised |-> FALSE, parsed |-> FALSE, status |-> EmptyDict]

\* utils.getPacemakerNodeStatus(node): a code and an output, which for code
\* 0 is a JSON text or not
RemoteStatusAnswers ==
    {[code |-> c, raised |-> FALSE, parsed |-> FALSE, status |-> EmptyDict] :
        c \in {0, 1, 2, 3, 4}}
    \cup {[code |-> 0, raised |-> FALSE, parsed |-> TRUE, status |-> d] :
        d \in NodeStatuses}

\* lib_pacemaker.get_local_node_status(runner): a node status, or a
\* LibraryError is raised
LocalStatusAnswers ==
    {[code |-> 0, raised |-> TRUE, parsed |-> FALSE, status |-> EmptyDict]}
    \cup {[code |-> 0, raised |-> FALSE, parsed |-> TRUE, status |-> d] :
        d \in NodeStatuses}

\* a mutant of is_node_fully_started: a pending node counts as started
is_node_online(node_status) ==
    /\ HasKey(node_status, "online")
    /\ node_status["online"]

\* lines 925-930
is_node_fully_started(node_status) ==
    /\ HasKey(node_status, "online")
    /\ HasKey(node_status, "pending")
    /\ node_status["online"]
    /\ ~node_status["pending"]

\* a mutant of PastDeadline: the deadline itself counts as passed
AtDeadline(t, deadline) == t >= deadline

\* lines 940 and 963: datetime.datetime.now() > stop_at
PastDeadline(t, deadline) == t > deadline

\* a mutant of NonRetryable: only an HTTP error ends the wait
NonRetryableHttpError(code) == code = 1

\* a mutant of NonRetryable: every code but 0 ends the wait
NonRetryableAnyCode(code) == code # 0

\* line 953
NonRetryable(code) == code \in {1, 3, 4}

WaitReturn(code, output) == [code |-> code, output |-> output]

NoReturn == WaitReturn(0, "")

\* a mutant of RemotePoll: the deadline is tested before the status is
\* looked at
RemotePollDeadlineFirst(resp, t, deadline) ==
    IF NonRetryable(resp.code)
    THEN WaitReturn(1, "output of the status query")
    ELSE IF PastDeadline(t, deadline)
    THEN WaitReturn(1, "Waiting timeout")
    ELSE IF resp.code = 0 /\ ~resp.parsed
    THEN WaitReturn(1, "Unable to get node status")
    ELSE IF resp.code = 0 /\ is_node_fully_started(resp.status)
    THEN WaitReturn(0, "Started")
    ELSE NoReturn

\* lines 949-965: one pass of the loop of wait_for_remote_node_started
RemotePoll(resp, t, deadline) ==
    IF NonRetryable(resp.code)
    THEN WaitReturn(1, "output of the status query")
    ELSE IF resp.code = 0 /\ ~resp.parsed
    THEN WaitReturn(1, "Unable to get node status")
    ELSE IF resp.code = 0 /\ is_node_fully_started(resp.status)
    THEN WaitReturn(0, "Started")
    ELSE IF PastDeadline(t, deadline)
    THEN WaitReturn(1, "Waiting timeout")
    ELSE NoReturn

\* a mutant of LocalPoll: a LibraryError is taken for "not started yet"
LocalPollRetrying(resp, t, deadline) ==
    IF ~resp.raised /\ is_node_fully_started(resp.status)
    THEN WaitReturn(0, "Started")
    ELSE IF PastDeadline(t, deadline)
    THEN WaitReturn(1, "Waiting timeout")
    ELSE NoReturn

\* lines 933-946: one pass of the loop of wait_for_local_node_started
LocalPoll(resp, t, deadline) ==
    IF resp.raised
    THEN WaitReturn(1, "Unable to get node status: LibraryError")
    ELSE IF is_node_fully_started(resp.status)
    THEN WaitReturn(0, "Started")
    ELSE IF PastDeadline(t, deadline)
    THEN WaitReturn(1, "Waiting timeout")
    ELSE NoReturn

\* a mutant of Polled: the loop goes on without time.sleep(interval)
PolledWithoutSleep(i, t, resp, ret) ==
    /\ w_last' = [w_last EXCEPT ![i] = resp]
    /\ w_late' = [w_late EXCEPT ![i] = (t > stop_at)]
    /\ w_polls' = [w_polls EXCEPT ![i] = @ + 1]
    /\ IF ret = NoReturn
       THEN /\ w_wake' = [w_wake EXCEPT ![i] = t]
            /\ UNCHANGED <<w_state, w_result>>
       ELSE /\ w_wake' = [w_wake EXCEPT ![i] = 0]
            /\ w_state' = [w_state EXCEPT ![i] = "returned"]
            /\ w_result' = [w_result EXCEPT ![i] = ret]
    /\ UNCHANGED <<w_pc, w_nodes, stop_at, w_msgs, w_outcome>>
    /\ UNCHANGED <<confVars, cmdVars, fanVars, parseVars>>

\* the waiter at position i has made a status query at time t and acted
\* on the answer
Polled(i, t, resp, ret) ==
    /\ w_last' = [w_last EXCEPT ![i] = resp]
    /\ w_late' = [w_late EXCEPT ![i] = (t > stop_at)]
    /\ w_polls' = [w_polls EXCEPT ![i] = @ + 1]
    /\ IF ret = NoReturn
       THEN \* time.sleep(interval)
            /\ w_wake' = [w_wake EXCEPT ![i] = t + interval]
            /\ UNCHANGED <<w_state, w_result>>
       ELSE \* no sleep is pending
            /\ w_wake' = [w_wake EXCEPT ![i] = 0]
            /\ w_state' = [w_state EXCEPT ![i] = "returned"]
            /\ w_result' = [w_result EXCEPT ![i] = ret]
    /\ UNCHANGED <<w_pc, w_nodes, stop_at, w_msgs, w_outcome>>
    /\ UNCHANGED <<confVars, cmdVars, fanVars, parseVars>>

\* wait_for_remote_node_started(node, stop_at, interval): one pass of the
\* loop, made at some time t after the sleep of the pass before has ended
WaitRemotePoll(i) ==
    /\ w_pc = "waiting"
    /\ w_nodes # <<>>
    /\ i \in Waiters
    /\ w_state[i] = "polling"
    /\ \E t \in PollTimes(w_wake[i]), resp \in RemoteStatusAnswers :
        Polled(i, t, resp, RemotePoll(resp, t, stop_at))

\* wait_for_local_node_started(stop_at, interval): one pass of the loop
WaitLocalPoll ==
    /\ w_pc = "waiting"
    /\ w_nodes = <<>>
    /\ w_state[1] = "polling"
    /\ \E t \in PollTimes(w_wake[1]), resp \in LocalStatusAnswers :
        Polled(1, t, resp, LocalPoll(resp, t, stop_at))

\* a mutant of WaitFailed: one started node is enough
WaitFailedAll(results) ==
    \A i \in DOMAIN results : results[i].code # 0

\* lines 974 and 979-982: the error list of the batch is not empty
WaitFailed(results) ==
    \E i \in DOMAIN results : results[i].code # 0

\* lines 972-983: every waiter has returned
WaitNodesReturn ==
    /\ w_pc = "waiting"
    /\ \A i \in Waiters : w_state[i] = "returned"
    /\ w_pc' = "done"
    /\ IF WaitFailed(w_result)
       THEN /\ w_outcome' = "fatal"
            /\ w_msgs' = Append(w_msgs,
                   IF w_nodes = <<>> THEN w_result[1].output
                   ELSE "unable to verify all nodes have started")
       ELSE /\ w_outcome' = "ok"
            /\ w_msgs' = IF w_nodes = <<>>
                         THEN Append(w_msgs, w_result[1].output)
                         ELSE w_msgs
    /\ UNCHANGED <<w_nodes, stop_at, w_state, w_wake, w_last, w_late, w_polls,
                   w_result>>
    /\ UNCHANGED <<confVars, cmdVars, fanVars, parseVars>>

\* lines 968-971, the call being made at time 0
WaitInit ==
    /\ w_pc = "waiting"
    /\ w_nodes \in {Members(k) : k \in 0..MaxWaitNodes}
    /\ stop_at \in 0..MaxTimeout
    /\ w_state = [i \in Waiters |-> "polling"]
    /\ w_wake = [i \in Waiters |-> 0]
    /\ w_last = [i \in Waiters |-> NoAnswer]
    /\ w_late = [i \in Waiters |-> FALSE]
    /\ w_polls = [i \in Waiters |-> 0]
    /\ w_result = [i \in Waiters |-> NoReturn]
    /\ w_msgs = <<"Waiting for node(s) to start...">>
    /\ w_outcome = "running"
    /\ ConfIdle
    /\ CmdIdle
    /\ FanIdle
    /\ ParseIdle

WaitNext ==
    \/ \E i \in 1..MaxWaitNodes : WaitRemotePoll(i)
    \/ WaitLocalPoll
    \/ WaitNodesReturn

SpecWait == WaitInit /\ [][WaitNext]_vars

\* the local node or one remote node is waited for
WaitInitOne == WaitInit /\ Len(w_nodes) <= 1

\* one waiter, which keeps running
SpecWaitFair ==
    /\ WaitInitOne
    /\ [][WaitNext]_vars
    /\ \A i \in 1..MaxWaitNodes : WF_vars(WaitRemotePoll(i))
    /\ WF_vars(WaitLocalPoll)
    /\ WF_vars(WaitNodesReturn)

(***************************************************************************)
(* cluster_setup_parse_options_corosync, cluster_setup_parse_options_cman  *)
(* and cluster_setup_create_cluster_conf.  An option dict maps the option  *)
(* names given to their values; None is written "None".                    *)
(***************************************************************************)
\* a report item: the lib_reports function called, what it is about and
\* the severity passed to it ("" when the call passes none)
Report(name, about, severity) ==
    [report |-> name, about |-> about, severity |-> severity]

\* lines 437 and 544
Severity(forced) == IF forced THEN "WARNING" ELSE "ERROR"

\* "--addr{0}".format(interface) and the like
Opt(base, interface) ==
    CASE base = "addr"      -> IF interface = 0 THEN "--addr0" ELSE "--addr1"
      [] base = "broadcast" -> IF interface = 0 THEN "--broadcast0"
                               ELSE "--broadcast1"
      [] base = "mcast"     -> IF interface = 0 THEN "--mcast0" ELSE "--mcast1"
      [] base = "mcastport" -> IF interface = 0 THEN "--mcastport0"
                               ELSE "--mcastport1"
      [] OTHER              -> IF interface = 0 THEN "--ttl0" ELSE "--ttl1"

\* "239.255.{0}.1".format(interface + 1), lines 502 and 616
McastDefault(interface) ==
    IF interface + 1 = 1 THEN "239.255.1.1" ELSE "239.255.2.1"

\* lines 441-450 and 560-570
TransportReports(options, forced) ==
    IF /\ HasKey(options, "--transport")
       /\ options["--transport"] \notin {"udp", "udpu"}
    THEN <<Report("invalid_option_value", "transport", Severity(forced))>>
    ELSE <<>>

\* lines 454-455 and 575-576
MismatchReports(transport, options) ==
    IF /\ transport = "udpu"
       /\ (HasKey(options, "--addr0") \/ HasKey(options, "--addr1"))
    THEN <<Report("rrp_addresses_transport_mismatch", "", "")>>
    ELSE <<>>

\* lines 456-460 and 578-582
rrpmode_of(options) ==
    IF HasKey(options, "--rrpmode") THEN options["--rrpmode"]
    ELSE IF HasKey(options, "--addr0") THEN "passive"
    ELSE "None"

\* a mutant of RrpReports: with force nothing is said about "active"
RrpReportsUnlessForced(rrpmode, forced) ==
    (IF rrpmode \notin {"None", "passive", "active"}
     THEN <<Report("invalid_option_value", "RRP mode", Severity(forced))>>
     ELSE <<>>)
    \o (IF rrpmode = "active" /\ ~forced
        THEN <<Report("rrp_active_not_supported", "", "force=False")>>
        ELSE <<>>)

\* lines 461-471 and 583-593
RrpReports(rrpmode, forced) ==
    (IF rrpmode \notin {"None", "passive", "active"}
     THEN <<Report("invalid_option_value", "RRP mode", Severity(forced))>>
     ELSE <<>>)
    \o (IF rrpmode = "active"
        THEN <<Report("rrp_active_not_supported", "",
                      IF forced THEN "force=True" ELSE "force=False")>>
        ELSE <<>>)

\* the loops "for opt_name, parsed_name in names.items(): if opt_name in
\* options: parsed[parsed_name] = options[opt_name]"
Renamed(options, names) ==
    LET present == {i \in 1..Len(names) : HasKey(options, names[i][1])}
    IN  [k \in {names[i][2] : i \in present} |->
            options[names[(CHOOSE i \in present : names[i][2] = k)][1]]]

\* lines 475-482
corosync_totem_names ==
    <<<<"--token", "token">>, <<"--token_coefficient", "token_coefficient">>,
      <<"--join", "join">>, <<"--consensus", "consensus">>,
      <<"--miss_count_const", "miss_count_const">>,
      <<"--fail_recv_const", "fail_recv_const">>>>

\* lines 597-603
cman_totem_names ==
    <<<<"--token", "token">>, <<"--join", "join">>,
      <<"--consensus", "consensus">>,
      <<"--miss_count_const", "miss_count_const">>,
      <<"--fail_recv_const", "fail_recv_const">>>>

\* lines 516-521
corosync_quorum_names ==
    <<<<"--wait_for_all", "wait_for_all">>,
      <<"--auto_tie_breaker", "auto_tie_breaker">>,
      <<"--last_man_standing", "last_man_standing">>,
      <<"--last_man_standing_window", "last_man_standing_window">>>>

\* lines 525-532
QuorumValueReports(options) ==
    LET names == <<"--wait_for_all", "--auto_tie_breaker",
                   "--last_man_standing">>
        bad == SelectSeq(names, LAMBDA n :
                   HasKey(options, n) /\ options[n] \notin {"0", "1"})
    IN  [i \in 1..Len(bad) |-> Report("invalid_option_value", bad[i], "")]

\* lines 626-636
IgnoredReports(options) ==
    LET names == <<"--wait_for_all", "--auto_tie_breaker",
                   "--last_man_standing", "--last_man_standing_window",
                   "--token_coefficient", "--ipv6">>
        given == SelectSeq(names, LAMBDA n : HasKey(options, n))
    IN  [i \in 1..Len(given) |-> Report("cman_ignored_option", given[i], "")]

\* an entry of a dict that is set under a condition only
SetIf(cond, key, value) == IF cond THEN key :> value ELSE EmptyDict

\* lines 494-511: the ring_options of one interface
RingOptionsCorosync(options, interface) ==
    ("addr" :> options[Opt("addr", interface)])
    @@ (IF HasKey(options, Opt("broadcast", interface))
        THEN "broadcast" :> TRUE
        ELSE ("mcastaddr" :>
                 (IF HasKey(options, Opt("mcast", interface))
                  THEN options[Opt("mcast", interface)]
                  ELSE McastDefault(interface)))
             @@ ("mcastport" :>
                 (IF HasKey(options, Opt("mcastport", interface))
                  THEN options[Opt("mcastport", interface)]
                  ELSE "5405"))
             @@ SetIf(HasKey(options, Opt("ttl", interface)), "ttl",
                      IF HasKey(options, Opt("ttl", interface))
                      THEN options[Opt("ttl", interface)] ELSE ""))

\* lines 428-534
cluster_setup_parse_options_corosync(options, forced) ==
    LET transport == IF HasKey(options, "--transport")
                     THEN options["--transport"] ELSE "udpu"
        rrpmode == rrpmode_of(options)
        interface_ids == IF HasKey(options, "--addr0")
                         THEN IF HasKey(options, "--addr1")
                              THEN <<0, 1>> ELSE <<0>>
                         ELSE <<>>
        rings == IF transport = "udp"
                 THEN [k \in 1..Len(interface_ids) |->
                          RingOptionsCorosync(options, interface_ids[k])]
                 ELSE <<>>
    IN  [parsed |->
            [transport_options |->
                 ("rings_options" :> rings)
                 @@ ("transport" :> transport)
                 @@ SetIf(rrpmode # "None", "rrp_mode", rrpmode)
                 @@ SetIf(HasKey(options, "--ipv6"), "ip_version", "ipv6"),
             totem_options |-> Renamed(options, corosync_totem_names),
             quorum_options |-> Renamed(options, corosync_quorum_names)],
         messages |->
            TransportReports(options, forced)
            \o MismatchReports(transport, options)
            \o RrpReports(rrpmode, forced)
            \o QuorumValueReports(options)]

\* lines 610-623: the ring_options of one interface
RingOptionsCman(options, interface) ==
    ("mcastaddr" :>
        (IF HasKey(options, Opt("mcast", interface))
         THEN options[Opt("mcast", interface)]
         ELSE McastDefault(interface)))
    @@ SetIf(HasKey(options, Opt("mcastport", interface)), "mcastport",
             IF HasKey(options, Opt("mcastport", interface))
             THEN options[Opt("mcastport", interface)] ELSE "")
    @@ SetIf(HasKey(options, Opt("ttl", interface)), "ttl",
             IF HasKey(options, Opt("ttl", interface))
             THEN options[Opt("ttl", interface)] ELSE "")

\* lines 536-638
cluster_setup_parse_options_cman(options, forced) ==
    LET broadcast == HasKey(options, "--broadcast0")
                     \/ HasKey(options, "--broadcast1")
        ring_missing_broadcast ==
            ~HasKey(options, "--broadcast0") \/ ~HasKey(options, "--broadcast1")
        transport == IF broadcast THEN "udpb"
                     ELSE IF HasKey(options, "--transport")
                     THEN options["--transport"] ELSE "udp"
        rrpmode == rrpmode_of(options)
        interface_ids == SelectSeq(<<0, 1>>,
                             LAMBDA i : HasKey(options, Opt("addr", i)))
        rings == IF ~broadcast
                 THEN [k \in 1..Len(interface_ids) |->
                          RingOptionsCman(options, interface_ids[k])]
                 ELSE <<>>
    IN  [parsed |->
            [transport_options |->
                 ("rings_options" :> rings)
                 @@ SetIf(broadcast, "broadcast", TRUE)
                 @@ ("transport" :> transport)
                 @@ SetIf(rrpmode # "None", "rrp_mode", rrpmode),
             totem_options |-> Renamed(options, cman_totem_names)],
         messages |->
            (IF broadcast
             THEN IF ring_missing_broadcast
                  THEN <<Report("cman_broadcast_all_rings", "", "")>>
                  ELSE <<>>
             ELSE TransportReports(options, forced))
            \o (IF transport = "udpu"
                THEN <<Report("cman_udpu_restart_required", "", "")>>
                ELSE <<>>)
            \o MismatchReports(transport, options)
            \o RrpReports(rrpmode, forced)
            \o IgnoredReports(options)]

\* cluster_setup lines 298-299
SetupRrpMode(udpu_rrp, parsed) ==
    IF udpu_rrp /\ ~HasKey(parsed.transport_options, "rrp_mode")
    THEN [parsed EXCEPT !.transport_options = @ @@ ("rrp_mode" :> "passive")]
    ELSE parsed

\* a ccs command: its name and its arguments, "key=value" as <<key, value>>
\* and a bare value as <<"", value>>
Ccs(name, args) == [cmd |-> name, args |-> args]

\* the loop "for opt_name in names: if opt_name in d: append(...)"
CcsArgs(names, d) ==
    LET present == SelectSeq(names, LAMBDA k : HasKey(d, k))
    IN  [i \in 1..Len(present) |-> <<present[i], d[present[i]]>>]

\* lines 768-794: the commands of one node
RECURSIVE NodeCommands(_, _)
NodeCommands(n_list, i) ==
    IF i > Len(n_list) THEN <<>>
    ELSE (IF HasKey(n_list[i], "ring0_addr")
          THEN <<Ccs("--addnode", <<<<"", n_list[i]["ring0_addr"]>>>>)>>
               \o (IF HasKey(n_list[i], "ring1_addr")
                   THEN <<Ccs("--addalt",
                              <<<<"", n_list[i]["ring0_addr"]>>,
                                <<"", n_list[i]["ring1_addr"]>>>>)>>
                   ELSE <<>>)
               \o <<Ccs("--addmethod",
                        <<<<"", "pcmk-method">>,
                          <<"", n_list[i]["ring0_addr"]>>>>),
                    Ccs("--addfenceinst",
                        <<<<"", "pcmk-redirect">>,
                          <<"", n_list[i]["ring0_addr"]>>,
                          <<"", "pcmk-method">>,
                          <<"port", n_list[i]["ring0_addr"]>>>>)>>
          ELSE <<>>)
         \o NodeCommands(n_list, i + 1)

\* lines 801-815: the multicast command of one ring
MulticastCommand(ring_number, ring_options) ==
    Ccs(IF ring_number = 0 THEN "--setmulticast" ELSE "--setaltmulticast",
        (IF HasKey(ring_options, "mcastaddr")
         THEN <<<<"", ring_options["mcastaddr"]>>>> ELSE <<>>)
        \o (IF HasKey(ring_options, "mcastport")
            THEN <<<<"port", ring_options["mcastport"]>>>> ELSE <<>>)
        \o (IF HasKey(ring_options, "ttl")
            THEN <<<<"ttl", ring_options["ttl"]>>>> ELSE <<>>))

\* lines 739-838: the ccs commands, in order
create_cluster_conf_commands(cluster_name, n_list, t_options, tt_options) ==
    LET broadcast == HasKey(t_options, "broadcast")
                     /\ t_options["broadcast"] = TRUE
        totem_cmd_options ==
            CcsArgs(<<"token", "join", "consensus", "miss_count_const",
                      "fail_recv_const">>, tt_options)
            \o CcsArgs(<<"rrp_mode">>, t_options)
    IN  <<Ccs("--createcluster", <<<<"", cluster_name>>>>),
          Ccs("--addfencedev",
              <<<<"", "pcmk-redirect">>, <<"agent", "fence_pcmk">>>>),
          Ccs("--setcman",
              CcsArgs(<<"transport">>, t_options)
              \o <<<<"broadcast", IF broadcast THEN "yes" ELSE "no">>>>
              \o (IF Len(n_list) = 2
                  THEN <<<<"two_node", "1">>, <<"expected_votes", "1">>>>
                  ELSE <<>>))>>
        \o NodeCommands(n_list, 1)
        \o (IF ~broadcast /\ HasKey(t_options, "rings_options")
            THEN [k \in 1..Len(t_options["rings_options"]) |->
                     MulticastCommand(k - 1, t_options["rings_options"][k])]
            ELSE <<>>)
        \o (IF totem_cmd_options # <<>>
            THEN <<Ccs("--settotem", totem_cmd_options)>>
            ELSE <<>>)

\* the option dicts that give key one of the values, or do not give it
Given(key, values) == {EmptyDict} \cup {key :> v : v \in values}

\* utils.pcs_options as cluster_setup may find it
ParseOptionDicts ==
    {a @@ b @@ c @@ d @@ e @@ f @@ g @@ h @@ i @@ j :
        a \in Given("--transport", {"udp", "udpu", "udpx"}),
        b \in Given("--rrpmode", {"passive", "active", "bogus"}),
        c \in Given("--addr0", {"10.0.0.0"}),
        d \in Given("--addr1", {"10.0.1.0"}),
        e \in Given("--broadcast0", {""}),
        f \in Given("--broadcast1", {""}),
        g \in Given("--mcast0", {"226.0.0.1"}),
        h \in Given("--mcastport0", {"5555"}),
        i \in Given("--mcast1", {"226.0.1.1"}),
        j \in {EmptyDict,
               ("--token" :> "5000") @@ ("--wait_for_all" :> "2")
               @@ ("--ipv6" :> "")}}

\* cluster_setup lines 246-265: the node dicts of two nodes
ParseNodeList(is_rhel6, udpu_rrp, options) ==
    LET ring1(a) == IF udpu_rrp THEN "ring1_addr" :> Ring1Of(a)
                    ELSE IF is_rhel6 /\ HasKey(options, "--addr1")
                    THEN "ring1_addr" :> options["--addr1"]
                    ELSE EmptyDict
    IN  <<("ring0_addr" :> "node-a") @@ ring1("node-a"),
          ("ring0_addr" :> "node-b") @@ ring1("node-b")>>

ParseInit ==
    /\ p_pc = "parse_corosync"
    /\ p_options \in ParseOptionDicts
    /\ p_force \in BOOLEAN
    /\ p_udpu_rrp \in BOOLEAN
    /\ p_corosync = NoParse
    /\ p_cman = NoParse
    /\ p_conf = NoConf
    /\ p_commands = NoCommands
    /\ ConfIdle
    /\ CmdIdle
    /\ FanIdle
    /\ WaitIdle

\* cluster_setup lines 293-299 where is_rhel6 is false
ParseOptionsCorosync ==
    /\ p_pc = "parse_corosync"
    /\ p_pc' = "parse_cman"
    /\ p_corosync' = [cluster_setup_parse_options_corosync(p_options, p_force)
                        EXCEPT !.parsed = SetupRrpMode(p_udpu_rrp, @)]
    /\ UNCHANGED <<p_options, p_force, p_udpu_rrp, p_cman, p_conf, p_commands>>
    /\ UNCHANGED <<confVars, cmdVars, fanVars, waitVars>>

\* cluster_setup lines 288-292 and 298-299 where is_rhel6 is true
ParseOptionsCman ==
    /\ p_pc = "parse_cman"
    /\ p_pc' = "create_corosync_conf"
    /\ p_cman' = [cluster_setup_parse_options_cman(p_options, p_force)
                    EXCEPT !.parsed = SetupRrpMode(p_udpu_rrp, @)]
    /\ UNCHANGED <<p_options, p_force, p_udpu_rrp, p_corosync, p_conf,
                   p_commands>>
    /\ UNCHANGED <<confVars, cmdVars, fanVars, waitVars>>

\* cluster_setup lines 310-318
CreateConfCorosync ==
    /\ p_pc = "create_corosync_conf"
    /\ p_pc' = "create_cluster_conf"
    /\ p_conf' = create_corosync_conf("cluster",
                     ParseNodeList(FALSE, p_udpu_rrp, p_options),
                     p_corosync.parsed.transport_options,
                     p_corosync.parsed.totem_options,
                     p_corosync.parsed.quorum_options)
    /\ UNCHANGED <<p_options, p_force, p_udpu_rrp, p_corosync, p_cman,
                   p_commands>>
    /\ UNCHANGED <<confVars, cmdVars, fanVars, waitVars>>

\* cluster_setup lines 303-308 and cluster_setup_create_cluster_conf lines
\* 840-855, where the first ccs run fails or none does
CreateConfCman ==
    /\ p_pc = "create_cluster_conf"
    /\ p_pc' = "done"
    /\ \E ccs_ok \in BOOLEAN :
        p_commands' =
            IF ccs_ok
            THEN [commands |-> create_cluster_conf_commands("cluster",
                                   ParseNodeList(TRUE, p_udpu_rrp, p_options),
                                   p_cman.parsed.transport_options,
                                   p_cman.parsed.totem_options),
                  messages |-> <<>>]
            ELSE [commands |-> <<>>,
                  messages |-> <<Report("common_error",
                                        "error creating cluster", "")>>]
    /\ UNCHANGED <<p_options, p_force, p_udpu_rrp, p_corosync, p_cman, p_conf>>
    /\ UNCHANGED <<confVars, cmdVars, fanVars, waitVars>>

ParseNext ==
    \/ ParseOptionsCorosync
    \/ ParseOptionsCman
    \/ CreateConfCorosync
    \/ CreateConfCman

SpecParse == ParseInit /\ [][ParseNext]_vars

(***************************************************************************)
(* Properties of the generated corosync.conf (SpecConf)                    *)
(***************************************************************************)
QuorumOf(conf) == SubSections(conf, "quorum")[1]

NodesOf(conf) == SubSections(SubSections(conf, "nodelist")[1], "node")

\* C1: the quorum section holds two_node (with value 1) exactly when the
\* node list has two entries and auto_tie_breaker is not "1"; with one
\* node, or three and more, it never holds two_node.
C1_TwoNodeMarker ==
    cpc = "built" =>
        LET quorum == QuorumOf(corosync_conf)
            tie_breaker == /\ "auto_tie_breaker" \in DOMAIN quorum_options
                           /\ quorum_options["auto_tie_breaker"] = "1"
        IN  /\ HasAttr(quorum, "two_node")
                <=> (Len(node_list) = 2 /\ ~tie_breaker)
            /\ AttrValues(quorum, "two_node") \in {<<>>, <<"1">>}

C1_Witness ==
    /\ cpc = "built"
    /\ Len(node_list) = 2
    /\ "auto_tie_breaker" \in DOMAIN quorum_options
    /\ quorum_options["auto_tie_breaker"] = "0"
    /\ AttrValues(QuorumOf(corosync_conf), "two_node") = <<"1">>

\* C2: the nodelist holds one node section per entry of the node list, in
\* the order of the list, and the k-th of them carries nodeid k.
C2_SequentialNodeIds ==
    cpc = "built" =>
        LET sections == NodesOf(corosync_conf)
        IN  /\ Len(sections) = Len(node_list)
            /\ \A k \in 1..Len(sections) :
                /\ AttrValues(sections[k], "nodeid") = <<k>>
                /\ AttrValues(sections[k], "ring0_addr")
                       = <<node_list[k]["ring0_addr"]>>

C2_Witness ==
    /\ cpc = "built"
    /\ Len(node_list) = 3
    /\ node_list[1]["ring0_addr"] = "node-c"
    /\ node_list[2]["ring0_addr"] = "node-a"
    /\ node_list[3]["ring0_addr"] = "node-b"
    /\ AttrValues(NodesOf(corosync_conf)[3], "nodeid") = <<3>>

(***************************************************************************)
(* Properties of "node remove" (Spec)                                      *)
(***************************************************************************)
\* positions of the calls of one kind to one node
CallPositions(op, node) ==
    {i \in 1..Len(calls) : calls[i].op = op /\ calls[i].node = node}

\* C3: in remove-node every membership update sent to a remaining member
\* comes after the stop of pacemaker on the target and after the destroy of
\* the target have been called and have returned.
C3_StopBeforePush ==
    cmd = "remove" =>
        \A i \in 1..Len(calls) :
            calls[i].op = "removeLocalNode" =>
                /\ \E j \in CallPositions("stopPacemaker", node0) : j < i
                /\ \E j \in CallPositions("destroyCluster", node0) : j < i

C3_Witness ==
    /\ cmd = "remove"
    /\ \E i \in 1..Len(calls) :
        /\ calls[i].op = "removeLocalNode"
        /\ calls[i].ok
        /\ calls[i].node # node0

\* the answer of the target's quorum tool predicts the loss of the quorum
RemovePredictsLoss(resp) ==
    /\ resp.retval = 0
    /\ resp.parsed
    /\ is_node_stop_cause_quorum_loss(resp.info, FALSE, <<node0>>)

RemoveLossText ==
    "Removing the node will cause a loss of the quorum, use --force to override"

RemoveUnknownText ==
    "Unable to determine whether removing the node will cause a loss of the quorum, use --force to override"

\* C4: without --force, remove-node asks the target for its quorum status
\* before it stops, destroys or updates anything, and a predicted loss for
\* removing just the target ends the command with nothing stopped,
\* destroyed or pushed; with --force no quorum status is asked for and no
\* quorum error ends the command.
C4_RemoveQuorumCheck ==
    cmd = "remove" =>
        /\ (~force /\ calls # <<>>) =>
              /\ Len(qlog) = 1
              /\ qlog[1].node = node0
              /\ ~RemovePredictsLoss(qlog[1].resp)
        /\ (~force /\ qlog # <<>> /\ RemovePredictsLoss(qlog[1].resp)) =>
              /\ calls = <<>>
              /\ outcome = "fatal"
              /\ Printed("error", RemoveLossText)
        /\ force =>
              /\ qlog = <<>>
              /\ ~Printed("error", RemoveLossText)
              /\ ~Printed("error", RemoveUnknownText)

C4_Witness ==
    /\ cmd = "remove"
    /\ ~force
    /\ qlog # <<>>
    /\ RemovePredictsLoss(qlog[1].resp)
    /\ outcome = "fatal"

(***************************************************************************)
(* Properties of the quorum check before a stop or a removal (Spec)        *)
(***************************************************************************)
StopIssued ==
    \E i \in 1..Len(calls) : calls[i].op \in {"stopPacemaker", "stopCorosync"}

\* the nodes to stop cover the whole configured membership
CoversAll == Range(all_nodes) \subseteq Range(nodes)

\* an answer that is a quorum status of a quorate node
Quorate(resp) == resp.retval = 0 /\ resp.parsed /\ resp.info.quorate

\* an answer of a node that is not quorate or is stopped already
NothingToLose(resp) ==
    /\ resp.retval = 0
    /\ \/ resp.parsed /\ ~resp.info.quorate
       \/ ~resp.parsed /\ resp.offline

StopPredictsLoss(resp) ==
    /\ Quorate(resp)
    /\ is_node_stop_cause_quorum_loss(resp.info, FALSE, nodes)

\* the quorum loop of stop_cluster_nodes has let the stop through
StopCheckPassed ==
    /\ qlog # <<>>
    /\ \A i \in 1..Len(qlog) : ~StopPredictsLoss(qlog[i].resp)
    /\ \/ Quorate(qlog[Len(qlog)].resp)
       \/ /\ Len(qlog) = Len(nodes)
          /\ \A i \in 1..Len(qlog) : NothingToLose(qlog[i].resp)

\* C5: stop_cluster_nodes asks no node for its quorum status when --force
\* is given or the nodes to stop cover the whole membership, and the stop
\* then goes ahead; in every other case nothing is stopped before the
\* quorum loop has let the stop through.
C5_StopNodesCheck ==
    cmd = "stop_nodes" =>
        /\ (force \/ CoversAll) => qlog = <<>>
        /\ (force \/ CoversAll) =>
              (pc = "done" /\ outcome = "fatal" =>
                  \/ Printed("error", "unable to stop all nodes")
                  \/ Printed("error",
                         "nodes do not appear to exist in configuration"))
        /\ (StopIssued /\ ~force /\ ~CoversAll) => StopCheckPassed

C5_Witness ==
    /\ cmd = "stop_nodes"
    /\ ~force
    /\ CoversAll
    /\ Len(all_nodes) = 2
    /\ qlog = <<>>
    /\ outcome = "ok"
    /\ Len(CallsOf("stopCorosync")) = Len(nodes)

\* an answer that tells nothing about the quorum and does not show the
\* node to be offline
Undeterminable(resp) == (resp.retval # 0 \/ ~resp.parsed) /\ ~resp.offline

StopLocalUnknownText ==
    "Unable to determine whether stopping the node will cause a loss of the quorum, use --force to override"

StopNodesUnknownText ==
    "Unable to determine whether stopping the nodes will cause a loss of the quorum, use --force to override"

UnknownText ==
    CASE cmd = "remove"     -> RemoveUnknownText
      [] cmd = "stop_nodes" -> StopNodesUnknownText
      [] OTHER              -> StopLocalUnknownText

\* C6: without --force, once a quorum answer was undeterminable (and, for
\* stop_cluster_nodes, no queried node gave the status of a quorate node),
\* nothing is stopped, destroyed or pushed, the command never returns
\* normally, and it ends with the "unable to determine" error; remove-node
\* and the local stop end with it at once.
C6_UndeterminableIsNotSafe ==
    (/\ cmd \in {"remove", "stop_nodes", "stop_local"}
     /\ ~force
     /\ \E i \in 1..Len(qlog) : Undeterminable(qlog[i].resp)
     /\ \A i \in 1..Len(qlog) : ~Quorate(qlog[i].resp))
    =>
        /\ calls = <<>>
        /\ outcome # "ok"
        /\ pc = "done" =>
              /\ outcome = "fatal"
              /\ msgs[Len(msgs)] = Msg("error", UnknownText,
                                       IF cmd = "remove" THEN node0 ELSE NoNode)
        /\ cmd \in {"remove", "stop_local"} => pc = "done"

C6_Witness ==
    /\ cmd = "stop_nodes"
    /\ ~force
    /\ Len(qlog) = 2
    /\ Undeterminable(qlog[1].resp)
    /\ NothingToLose(qlog[2].resp)
    /\ outcome = "fatal"
    /\ Printed("error", StopNodesUnknownText)

StopLocalLossText ==
    "Stopping the node will cause a loss of the quorum, use --force to override"

StopNodesLossText ==
    "Stopping the node(s) will cause a loss of the quorum, use --force to override"

QuorumTexts ==
    {RemoveLossText, RemoveUnknownText, StopLocalLossText, StopLocalUnknownText,
     StopNodesLossText, StopNodesUnknownText}

\* the check of the command predicts the loss of the quorum from an answer
PredictsLoss(resp) ==
    CASE cmd = "remove"     -> RemovePredictsLoss(resp)
      [] cmd = "stop_nodes" -> StopPredictsLoss(resp)
      [] cmd = "stop_local" ->
            /\ resp.parsed
            /\ is_node_stop_cause_quorum_loss(resp.info, TRUE, <<>>)
      [] OTHER -> FALSE

LossPredicted == \E i \in 1..Len(qlog) : PredictsLoss(qlog[i].resp)

\* the nodes that leave the cluster when the command goes through
Leaving ==
    CASE cmd = "remove"     -> {node0}
      [] cmd = "stop_nodes" -> Range(nodes)
      [] cmd = "stop_local" -> {LocalNode}
      [] OTHER -> {}

\* the command, gone through, leaves the quorate partition without quorum
WouldLoseQuorum ==
    Cardinality(truth.online \ Leaving) < truth.quorum

QuorumWarned ==
    \E i \in 1..Len(msgs) : msgs[i].sev = "warning" /\ msgs[i].text \in QuorumTexts

QuorumMentioned == \E i \in 1..Len(msgs) : msgs[i].text \in QuorumTexts

\* C7 as stated: a predicted loss blocks the command unless --force is
\* given, and a forced command that drops the cluster below quorum goes
\* through with the finding printed as a warning.
C7_ForcedLossIsWarned ==
    cmd \in {"remove", "stop_nodes", "stop_local"} =>
        /\ (~force /\ LossPredicted) => (calls = <<>> /\ outcome = "fatal")
        /\ (force /\ WouldLoseQuorum /\ outcome = "ok") => QuorumWarned

\* C7, amended: a predicted loss blocks the command unless --force is
\* given; with --force no quorum status is asked for, so a command that
\* drops the cluster below quorum goes through and nothing about the quorum
\* is printed, neither an error nor a warning.
C7_LossBlocksUnlessForced ==
    cmd \in {"remove", "stop_nodes", "stop_local"} =>
        /\ (~force /\ LossPredicted) =>
              /\ calls = <<>>
              /\ pc = "done"
              /\ outcome = "fatal"
              /\ msgs[Len(msgs)].sev = "error"
              /\ msgs[Len(msgs)].text \in
                     {RemoveLossText, StopLocalLossText, StopNodesLossText}
        /\ force => (qlog = <<>> /\ ~QuorumMentioned)

C7_Witness ==
    /\ cmd = "remove"
    /\ force
    /\ WouldLoseQuorum
    /\ Len(all_nodes) = 3
    /\ outcome = "ok"
    /\ msgs = <<Msg("info", "Corosync updated", all_nodes[2]),
                Msg("info", "Corosync updated", all_nodes[3])>>

(***************************************************************************)
(* Properties of the membership updates of "node add" and "node remove"    *)
(***************************************************************************)
AddPushes == CallsOf("addLocalNode")

AddAccepted == \E i \in 1..Len(AddPushes) : AddPushes[i].ok

\* the loop over the existing members has been left
AddLoopDone == Called("reloadCorosync")

LastMsg == msgs[Len(msgs)]

\* the errors of the steps that follow the membership updates: the pcsd
\* configs for the new node, the qdevice certificates, the corosync config
\* of the new node, the wait for its start
NewNodeStepErrors ==
    {"Unable to set pcsd configs", "Unable to authenticate",
     "Unable to communicate with pcsd", "qdevice certificate setup failed",
     "Unable to set corosync config",
     "unable to verify all nodes have started"}

\* C8 as stated: every existing member is sent the update whatever the
\* earlier members answered; with no acceptance the command ends with
\* "Unable to update any nodes", with one acceptance it ends in success.
C8_AcceptanceMeansSuccess ==
    cmd = "add" =>
        /\ AddLoopDone => Len(AddPushes) = Len(all_nodes)
        /\ (pc = "done" /\ AddLoopDone /\ ~AddAccepted) =>
              (outcome = "fatal" /\ LastMsg.text = "Unable to update any nodes")
        /\ (pc = "done" /\ AddAccepted) => outcome = "ok"

\* C8, amended: every existing member is sent the update, in the order of
\* the configuration, whatever the earlier members answered; with no
\* acceptance the command ends with "Unable to update any nodes"; with
\* one acceptance no answer of another member ends the command: it goes on
\* to the steps for the new node and ends in success unless one of those
\* (pcsd configs, qdevice certificates, corosync config of the new node,
\* wait for its start) ends it.
C8_AcceptanceGoesOn ==
    cmd = "add" =>
        /\ Len(AddPushes) <= Len(all_nodes)
        /\ \A i \in 1..Len(AddPushes) : AddPushes[i].node = all_nodes[i]
        /\ AddLoopDone => Len(AddPushes) = Len(all_nodes)
        /\ (pc = "done" /\ AddPushes # <<>>) => AddLoopDone
        /\ (pc = "done" /\ AddLoopDone /\ ~AddAccepted) =>
              (outcome = "fatal" /\ LastMsg.text = "Unable to update any nodes")
        /\ (pc = "done" /\ AddAccepted) =>
              /\ Called("send_local_configs")
              /\ ~Printed("error", "Unable to update any nodes")
              /\ outcome = "ok"
                 \/ (/\ outcome = "fatal"
                     /\ LastMsg.sev = "error"
                     /\ LastMsg.text \in NewNodeStepErrors)

C8_Witness ==
    /\ cmd = "add"
    /\ Len(AddPushes) = 3
    /\ ~AddPushes[1].ok
    /\ AddPushes[2].ok
    /\ ~AddPushes[3].ok
    /\ outcome = "ok"

RemovePushes == CallsOf("removeLocalNode")

\* the configured members other than the target, in order
Remaining == SelectSeq(all_nodes, LAMBDA n : n # node0)

RemoveAcceptedBy(n) ==
    \E i \in 1..Len(msgs) : msgs[i] = Msg("info", "Corosync updated", n)

RemoveSomeAccepted == \E n \in Range(Remaining) : RemoveAcceptedBy(n)

\* the command has got past the destroy of the target and has ended
RemoveEndedAfterDestroy ==
    /\ pc = "done"
    /\ Called("destroyCluster")
    /\ ~(outcome = "fatal"
            /\ LastMsg = Msg("error", "unable to destroy cluster", node0))

\* C9: remove-node sends the update once to every configured member but
\* the target, in the order of the configuration and whatever the earlier
\* members answered; without an acceptance (call and remote command both
\* succeeded) it ends with "Unable to update any nodes", nothing reloaded
\* and nothing evicted; with one it reloads corosync, then runs
\* crm_node --force -R for the target, and returns.
C9_RemoveUpdates ==
    cmd = "remove" =>
        /\ Len(RemovePushes) <= Len(Remaining)
        /\ \A i \in 1..Len(RemovePushes) :
              /\ RemovePushes[i].node = Remaining[i]
              /\ RemovePushes[i].ok <=> RemoveAcceptedBy(Remaining[i])
        /\ RemoveEndedAfterDestroy => Len(RemovePushes) = Len(Remaining)
        /\ ~RemoveSomeAccepted =>
              (~Called("reloadCorosync") /\ ~Called("crm_node --force -R"))
        /\ (RemoveEndedAfterDestroy /\ ~RemoveSomeAccepted) =>
              (outcome = "fatal" /\ LastMsg.text = "Unable to update any nodes")
        /\ (pc = "done" /\ RemoveSomeAccepted) =>
              /\ outcome = "ok"
              /\ Len(calls) >= 2
              /\ calls[Len(calls) - 1].op = "reloadCorosync"
              /\ calls[Len(calls)].op = "crm_node --force -R"
              /\ calls[Len(calls)].node = node0
              /\ Len(CallsOf("reloadCorosync")) = 1
              /\ Len(CallsOf("crm_node --force -R")) = 1

C9_Witness ==
    /\ cmd = "remove"
    /\ Len(all_nodes) = 3
    /\ node0 = all_nodes[2]
    /\ Len(RemovePushes) = 2
    /\ ~RemovePushes[1].ok
    /\ RemovePushes[2].ok
    /\ outcome = "ok"

(***************************************************************************)
(* Properties of a parallel batch (SpecFanout)                             *)
(***************************************************************************)
FailedResults == {i \in 1..Len(fan_results) : ~fan_results[i].success}

SucceededResults == {i \in 1..Len(fan_results) : fan_results[i].success}

FleetCmds == {"start_nodes", "enable_nodes", "disable_nodes"}

\* the call a fleet-wide command makes on each node
FleetOp ==
    CASE cmd = "start_nodes" -> "startCluster"
      [] cmd = "enable_nodes" -> "enableCluster"
      [] OTHER -> "disableCluster"

FleetErrorText ==
    CASE cmd = "start_nodes" -> "unable to start all nodes"
      [] cmd = "enable_nodes" -> "unable to enable all nodes"
      [] OTHER -> "unable to disable all nodes"

FleetSomeFailed == \E i \in 1..Len(calls) : ~calls[i].ok

StartedReturn == WaitReturn(0, "Started")

TimeoutReturn == WaitReturn(1, "Waiting timeout")

Returned(i) == w_state[i] = "returned"

\* the answer is a status with both keys, online true and pending false
ReportsStarted(resp) ==
    resp.parsed /\ resp.status = [online |-> TRUE, pending |-> FALSE]

\* the remote answers there is no point in asking again after
RemoteFailureForGood(resp) ==
    resp.code \in {1, 3, 4} \/ (resp.code = 0 /\ ~resp.parsed /\ ~resp.raised)

\* C12: a waiter, local or remote, always returns; one whose latest
\* answer neither reported the node online and not pending nor was a
\* failure that ends the wait has returned ("Waiting timeout", 1); and the
\* timeout is only ever returned by a pass of the loop that read the clock
\* after the deadline.
C12_TimeoutOnlyPastDeadline ==
    /\ [](\A i \in Waiters :
            /\ ( /\ Returned(i)
                 /\ ~ReportsStarted(w_last[i])
                 /\ ~RemoteFailureForGood(w_last[i])
                 /\ ~w_last[i].raised ) => w_result[i] = TimeoutReturn
            /\ w_result[i] = TimeoutReturn => w_late[i])
    /\ <>(\A i \in Waiters : Returned(i))

C12_Witness ==
    /\ Len(w_nodes) = 1
    /\ w_result[1] = TimeoutReturn
    /\ w_last[1].status = [online |-> TRUE, pending |-> TRUE]
    /\ stop_at = MaxTimeout

\* C13: a remote waiter whose status query answers 1, 3 or 4, or answers
\* 0 with an output that is no JSON, has returned code 1 in that very pass
\* of the loop: it is not asleep and asks no more, whether the deadline has
\* passed or not.
C13_RemoteFailureReturnsAtOnce ==
    w_nodes # <<>> =>
        \A i \in Waiters :
            RemoteFailureForGood(w_last[i]) =>
                /\ Returned(i)
                /\ w_wake[i] = 0
                /\ w_result[i].code = 1
                /\ w_result[i] # TimeoutReturn
                /\ (w_last[i].code = 0 =>
                        w_result[i].output = "Unable to get node status")

C13_Witness ==
    /\ Len(w_nodes) = 1
    /\ w_last[1].code = 3
    /\ Returned(1)
    /\ ~w_late[1]
    /\ stop_at = MaxTimeout

\* a remote answer with a code other than 0, 1, 3, 4
OtherCode(resp) == resp.code >= 0 /\ resp.code \notin {0, 1, 3, 4}

\* the waiter sleeps for the poll interval and will ask again
Retrying(i) ==
    /\ w_state[i] = "polling"
    /\ w_wake[i] >= interval
    /\ w_wake[i] <= stop_at + interval

\* C14 as stated: every failed status query that is not one of the
\* non-retryable remote answers - a remote code other than 0, 1, 3, 4 or an
\* error raised by the local query - is retried after the poll interval
\* while the deadline has not passed, and ends in the timeout after it.
C14_EveryOtherFailureRetried ==
    \A i \in Waiters :
        (OtherCode(w_last[i]) \/ w_last[i].raised) =>
            IF w_late[i]
            THEN Returned(i) /\ w_result[i] = TimeoutReturn
            ELSE Retrying(i)

\* C14, amended: a remote code other than 0, 1, 3, 4 is retried after the
\* poll interval while the deadline has not passed and ends in the timeout
\* after it; an error raised by the local status query is never retried,
\* the local waiter returns code 1 and "Unable to get node status" at once.
C14_RemoteRetriedLocalNot ==
    \A i \in Waiters :
        /\ OtherCode(w_last[i]) =>
              IF w_late[i]
              THEN Returned(i) /\ w_result[i] = TimeoutReturn
              ELSE Retrying(i)
        /\ w_last[i].raised =>
              /\ Returned(i)
              /\ w_result[i] =
                    WaitReturn(1, "Unable to get node status: LibraryError")

C14_Witness ==
    /\ Len(w_nodes) = 2
    /\ OtherCode(w_last[1])
    /\ Retrying(1)
    /\ OtherCode(w_last[2])
    /\ w_result[2] = TimeoutReturn

\* C15: a waiter has returned (0, "Started") only if the answer to its
\* latest status query is a status that holds both keys with online true
\* and pending false; and the local wait has only then printed "Started".
C15_StartedOnlyWhenOnlineNotPending ==
    /\ \A i \in Waiters :
          w_result[i].code = 0 /\ Returned(i) =>
              /\ w_result[i] = StartedReturn
              /\ ReportsStarted(w_last[i])
    /\ (w_pc = "done" /\ w_nodes = <<>> /\ w_outcome = "ok") =>
          /\ ReportsStarted(w_last[1])
          /\ w_msgs[Len(w_msgs)] = "Started"

C15_Witness ==
    /\ w_nodes = <<>>
    /\ w_pc = "done"
    /\ w_outcome = "ok"
    /\ w_late[1]

\* C16: when wait_for_nodes_started over a node list has ended, every node
\* of the list has been polled to an outcome of its own; it ended
\* successfully exactly when every node returned "Started", and otherwise
\* in the fatal error "unable to verify all nodes have started".
C16_AllNodesMustStart ==
    (w_pc = "done" /\ w_nodes # <<>>) =>
        /\ \A i \in Waiters : Returned(i) /\ w_last[i] # NoAnswer
        /\ w_outcome = "ok" <=> \A i \in Waiters : w_result[i] = StartedReturn
        /\ w_outcome = "fatal" <=> \E i \in Waiters : w_result[i].code # 0
        /\ w_outcome = "fatal" =>
              w_msgs[Len(w_msgs)] = "unable to verify all nodes have started"

C16_Witness ==
    /\ w_pc = "done"
    /\ Len(w_nodes) = 2
    /\ w_last[1].code = 3
    /\ ~w_late[1]
    /\ w_result[2] = StartedReturn
    /\ w_late[2]
    /\ w_outcome = "fatal"

(***************************************************************************)
(* Properties of destroy (Spec)                                            *)
(***************************************************************************)
DestroyingLocally == cmd = "destroy" /\ "--all" \notin pcs_options

DestroyingAll == cmd = "destroy" /\ "--all" \in pcs_options

\* the local teardown has run every step, in order, and has returned
LocalTeardownComplete ==
    /\ outcome = "ok"
    /\ msgs = <<>>
    /\ Len(calls) = Len(DestroySteps(env.is_rhel6))
    /\ \A i \in 1..Len(calls) : calls[i].op = DestroySteps(env.is_rhel6)[i]
    /\ calls[1].op = "service pacemaker stop"
    /\ calls[4].op = "killall"
    /\ calls[Len(calls)].op = "qdevice_net.client_destroy"

DestroyCallFailed ==
    \E i \in 1..Len(calls) : calls[i].op = "destroyCluster" /\ ~calls[i].ok

\* the stop batch and then the destroy batch have each been run on every
\* node of the list
BothBatchesRun(n_list) ==
    /\ Len(calls) = 2 * Len(n_list)
    /\ \A i \in 1..Len(n_list) :
          /\ calls[i].op = "stopPacemaker"
          /\ calls[i].node = n_list[i]
          /\ calls[Len(n_list) + i].op = "destroyCluster"
          /\ calls[Len(n_list) + i].node = n_list[i]

\* C17 as stated: the local teardown runs every step in order whatever
\* fails, and the destroy of a node list never ends in a fatal error.
C17_DestroyNeverFails ==
    /\ (DestroyingLocally /\ pc = "done") => LocalTeardownComplete
    /\ DestroyingAll => outcome # "fatal"

\* C17, amended: the local teardown runs every step in order whatever
\* fails and returns; the destroy of a node list runs the stop and then the
\* destroy on every node whatever the stops did, and ends in the fatal
\* error "unable to destroy cluster" exactly when the destroy failed on
\* some node.
C17_OnlyLocalDestroyNeverFails ==
    /\ (DestroyingLocally /\ pc = "done") => LocalTeardownComplete
    /\ (DestroyingAll /\ pc = "done") =>
          /\ BothBatchesRun(all_nodes)
          /\ outcome = "fatal" <=> DestroyCallFailed
          /\ Printed("error", "unable to destroy cluster") <=> DestroyCallFailed

C17_Witness ==
    /\ DestroyingAll
    /\ pc = "done"
    /\ Len(all_nodes) = 2
    /\ ~calls[1].ok
    /\ calls[3].ok
    /\ ~calls[4].ok
    /\ outcome = "fatal"

(***************************************************************************)
(* cluster_setup over a node list: the availability check and the destroy  *)
(***************************************************************************)
SettingUpNodes == cmd = "setup" /\ "--local" \notin pcs_options

\* the availability check found node n taken or out of reach
CheckedUnavailable(n) ==
    \E i \in 1..Len(calls) : calls[i] = Call("canAddNodeToCluster", n, FALSE)

AvailabilityChecked ==
    \E i \in 1..Len(calls) : calls[i].op = "canAddNodeToCluster"

\* the calls that hand a configuration to a node
DistributionOps == {"send_local_configs", "setCorosyncConfig"}

\* every target was destroyed before the i-th call
DestroyedBefore(i) ==
    \A n \in Range(nodes) :
        \E j \in 1..(i - 1) :
            calls[j].op = "destroyCluster" /\ calls[j].node = n

\* C18: a setup of several nodes without --force asks every target node
\* whether it may join, prints an error for each one that may not, and if
\* there is one ends fatally having issued nothing but the checks (no
\* destroy, no config, no start); with --force no check is made and every
\* target is destroyed before any configuration is handed out.
C18_AvailabilityCheckedOrDestroyed ==
    SettingUpNodes =>
        /\ (~force /\ calls # <<>>) =>
              /\ Len(calls) >= Len(nodes)
              /\ \A i \in 1..Len(nodes) :
                    /\ calls[i].op = "canAddNodeToCluster"
                    /\ calls[i].node = nodes[i]
        /\ \A n \in Range(nodes) :
              CheckedUnavailable(n) =>
                  \E k \in 1..Len(msgs) :
                      msgs[k] = Msg("error", "node is not available", n)
        /\ (\E n \in Range(nodes) : CheckedUnavailable(n)) =>
              /\ outcome = "fatal"
              /\ Len(calls) = Len(nodes)
              /\ msgs[Len(msgs)].text =
                    "nodes availability check failed, use --force to override"
        /\ force => ~AvailabilityChecked
        /\ force => \A i \in 1..Len(calls) :
                        calls[i].op \in DistributionOps => DestroyedBefore(i)

\* two targets, the first is not available and the second is: both are
\* asked and the setup ends there
C18_Witness ==
    /\ SettingUpNodes
    /\ ~force
    /\ Len(nodes) = 2
    /\ CheckedUnavailable(nodes[1])
    /\ calls[2] = Call("canAddNodeToCluster", nodes[2], TRUE)
    /\ outcome = "fatal"

\* a forced setup that reached the push of the config to the second target
C18_ForcedReachesPush ==
    /\ SettingUpNodes
    /\ force
    /\ Len(nodes) = 2
    /\ \E i \in 1..Len(calls) :
          calls[i].op = "setCorosyncConfig" /\ calls[i].node = nodes[2]


(***************************************************************************)
(* cluster_setup over a node list: warnings that do not end the setup      *)
(***************************************************************************)
\* what a failed distribution of the pcsd configs prints
PcsdFailureTexts ==
    {"Unable to set pcsd configs", "Unable to communicate with pcsd",
     "Unable to authenticate", "Unable to set pcsd configs on node"}

\* the distribution of the pcsd configs was the i-th call and it failed
PcsdConfigsFailedAt(i) == calls[i] = Call("send_local_configs", NoNode, FALSE)

PushRefused ==
    \E j \in 1..Len(calls) : calls[j].op = "setCorosyncConfig" /\ ~calls[j].ok

\* the calls after the i-th start with the push to every target, in order
AllPushedAfter(i) ==
    /\ Len(calls) >= i + Len(nodes)
    /\ \A k \in 1..Len(nodes) :
          /\ calls[i + k].op = "setCorosyncConfig"
          /\ calls[i + k].node = nodes[k]

\* C19: in a setup of several nodes a failed distribution of the pcsd
\* configs, whatever failed in it, is printed as warnings only and does not
\* end the setup: the corosync config is then pushed to the targets in
\* turn, to every one of them unless a push itself is refused; and a failed
\* certificate sync does not end the setup either.
C19_AuxiliaryFailuresOnlyWarn ==
    SettingUpNodes =>
        /\ \A k \in 1..Len(msgs) :
              msgs[k].text \in PcsdFailureTexts => msgs[k].sev = "warning"
        /\ \A i \in 1..Len(calls) :
              PcsdConfigsFailedAt(i) =>
                  /\ \E k \in 1..Len(msgs) : msgs[k].text \in PcsdFailureTexts
                  /\ outcome = "fatal" => Len(calls) > i
                  /\ \A k \in 1..Len(nodes) :
                        Len(calls) >= i + k =>
                            /\ calls[i + k].op = "setCorosyncConfig"
                            /\ calls[i + k].node = nodes[k]
                  /\ (pc # "st_push" /\ ~PushRefused) => AllPushedAfter(i)
        /\ ( /\ calls # <<>>
             /\ calls[Len(calls)] = Call("pcsd_sync_certs", NoNode, FALSE) ) =>
                  \/ outcome # "fatal"
                  \/ msgs[Len(msgs)].text =
                        "unable to verify all nodes have started"

\* two targets, one of them not authorized: the configs are pushed to both
\* all the same, the certificate sync fails and the setup ends well
C19_Witness ==
    /\ SettingUpNodes
    /\ Len(nodes) = 2
    /\ \E i \in 1..Len(calls) : PcsdConfigsFailedAt(i) /\ AllPushedAfter(i)
    /\ \E k \in 1..Len(msgs) :
          msgs[k] = Msg("warning", "Unable to authenticate", nodes[2])
    /\ calls[Len(calls)] = Call("pcsd_sync_certs", NoNode, FALSE)
    /\ pc = "done"
    /\ outcome = "ok"


(***************************************************************************)
(* cluster_setup --local                                                   *)
(***************************************************************************)
SettingUpLocally == cmd = "setup" /\ "--local" \in pcs_options

\* the path of the config file this kind of cluster uses was given on the
\* command line
ConfigPathGiven ==
    IF env.is_rhel6 THEN "--cluster_conf" \in pcs_options
    ELSE "--corosync_conf" \in pcs_options

\* what the conflict checks look for
LocalConflict ==
    env.config_exists \/ (~ConfigPathGiven /\ env.cib_exists)

\* a step of the local teardown was the i-th call
TeardownStepAt(i) ==
    \E k \in 1..Len(DestroySteps(env.is_rhel6)) :
        calls[i].op = DestroySteps(env.is_rhel6)[k]

\* the whole local teardown ran first, in order, and then the i-th call
TeardownCompleteBefore(i) ==
    /\ i = Len(DestroySteps(env.is_rhel6)) + 1
    /\ \A k \in 1..(i - 1) : calls[k].op = DestroySteps(env.is_rhel6)[k]
    /\ calls[1].op = "service pacemaker stop"
    /\ calls[i - 1].op = "qdevice_net.client_destroy"

\* C20: setup --local writes the config only after the conflict checks
\* passed. Without --force an existing config file, or an existing cib.xml
\* when the config path was not given, ends the setup fatally with nothing
\* destroyed and nothing written. When the config path was not given (with
\* --force in particular) the whole local teardown runs before the config
\* is written; when it was given no step of the teardown runs at all.
C20_LocalSetupChecksThenDestroysThenWrites ==
    SettingUpLocally =>
        /\ (~force /\ LocalConflict) =>
              /\ calls = <<>>
              /\ pc \notin {"st_validate", "st_lcheck"} => outcome = "fatal"
        /\ \A i \in 1..Len(calls) :
              (calls[i].op = "setCorosyncConf" /\ ~ConfigPathGiven) =>
                  TeardownCompleteBefore(i)
        /\ (force /\ ~ConfigPathGiven /\ pc = "st_write") =>
              TeardownCompleteBefore(Len(calls) + 1)
        /\ ConfigPathGiven => \A i \in 1..Len(calls) : ~TeardownStepAt(i)

\* a forced setup over an existing config file and cib.xml: every step of
\* the teardown failed and the config was written all the same
C20_Witness ==
    /\ SettingUpLocally
    /\ force
    /\ env.config_exists
    /\ env.cib_exists
    /\ ~ConfigPathGiven
    /\ Len(calls) > Len(DestroySteps(env.is_rhel6))
    /\ ~calls[1].ok
    /\ calls[Len(DestroySteps(env.is_rhel6)) + 1] =
          Call("setCorosyncConf", LocalNode, TRUE)
    /\ outcome = "ok"

\* without --force the existing cib.xml ended the setup
C20_ConflictAborts ==
    /\ SettingUpLocally
    /\ ~force
    /\ ~env.config_exists
    /\ env.cib_exists
    /\ outcome = "fatal"
    /\ Printed("error", "cib.xml already exists, use --force to overwrite")

\* the config path was given and the config was written
C20_OverriddenWrites ==
    /\ SettingUpLocally
    /\ ConfigPathGiven
    /\ Called("setCorosyncConf")


(***************************************************************************)
(* "node add": what is checked before anything is changed                  *)
(***************************************************************************)
Adding == cmd = "add"

\* the node comes with a ring 1 address and the cluster has no ring 1, or
\* the other way round
RingMismatch == env.node1 # env.need_ring1_address

RingTexts ==
    {"cluster is configured for RRP, you have to specify ring 1 address for the node",
     "cluster is not configured for RRP, you must not specify ring 1 address for the node"}

\* C21: "node add" with a ring 1 address the cluster does not use, or
\* without one the cluster needs, ends fatally before anything is asked
\* of or sent to any node: no sbd/booth sync, no push to a member, no
\* reload, nothing on the new node.
C21_RingMismatchRejectedFirst ==
    (Adding /\ RingMismatch) =>
        /\ calls = <<>>
        /\ pc # "a_validate" =>
              /\ outcome = "fatal"
              /\ Len(msgs) = 1
              /\ msgs[1].sev = "error"
              /\ msgs[1].text \in RingTexts \cup {"not authorized"}

\* a ring 1 address given to a cluster without ring 1 was refused, in a
\* cluster that has members to push to
C21_Witness ==
    /\ Adding
    /\ env.node1
    /\ ~env.need_ring1_address
    /\ all_nodes # <<>>
    /\ outcome = "fatal"
    /\ msgs[1].text \in RingTexts

\* the availability check of the new node failed
AddCheckFailed ==
    \E i \in 1..Len(calls) :
        calls[i] = Call("canAddNodeToCluster", node0, FALSE)

\* the command ended on the failed availability check
AddRejected ==
    /\ outcome = "fatal"
    /\ Len(calls) = 1
    /\ msgs # <<>>
    /\ msgs[Len(msgs)].text = "Unable to add node to cluster"

\* C22: when the new node is found to be in a cluster already, "node add"
\* without --force ends there, before any push to a member, and with
\* --force it goes on.
C22_AddRejectedUnlessForced ==
    (Adding /\ AddCheckFailed) =>
        /\ ~force => (AddRejected /\ ~Called("addLocalNode"))
        /\ force => ~AddRejected


(***************************************************************************)
(* "node remove": the stop and the destroy of the target                   *)
(***************************************************************************)
Removing == cmd = "remove"

TargetStopFailed ==
    \E i \in 1..Len(calls) : calls[i] = Call("stopPacemaker", node0, FALSE)

TargetDestroyFailed ==
    \E i \in 1..Len(calls) : calls[i] = Call("destroyCluster", node0, FALSE)

\* the command ended on the failed destroy of the target
RemoveBlocked ==
    /\ outcome = "fatal"
    /\ LastMsg = Msg("error", "unable to destroy cluster", node0)

\* every remaining member was sent the update
RemovePushedToAll ==
    \A n \in Range(Remaining) :
        \E i \in 1..Len(calls) :
            calls[i].op = "removeLocalNode" /\ calls[i].node = n

\* the loop over the members is over
RemovePushesOver ==
    \/ pc \in {"r_reload", "r_evict"}
    \/ pc = "done" /\ Called("destroyCluster") /\ ~RemoveBlocked

\* C23 as stated, for the stop and the destroy calls: the target is
\* destroyed whether or not its stop failed, a failed destroy is printed as
\* a warning and never ends the command, and the update goes to the
\* remaining members in every case, with and without --force.
C23_TargetFailuresNeverBlock ==
    Removing =>
        /\ (TargetStopFailed /\ pc # "r_destroy") => Called("destroyCluster")
        /\ TargetDestroyFailed =>
              /\ Printed("warning", "unable to destroy cluster")
              /\ ~RemoveBlocked
        /\ (pc = "done" /\ Called("destroyCluster")) => RemovePushedToAll

\* C23, amended: the target is destroyed whether or not its stop failed,
\* and a failed stop alone changes nothing else; a failed destroy is
\* printed as a warning and passed over with --force, and without --force
\* it ends the command with the error "unable to destroy cluster" before
\* any update is sent to a remaining member.
C23_DestroyFailureBlocksUnlessForced ==
    Removing =>
        /\ (TargetStopFailed /\ pc # "r_destroy") => Called("destroyCluster")
        /\ ~TargetDestroyFailed =>
              /\ ~RemoveBlocked
              /\ \A i \in 1..Len(msgs) :
                    msgs[i].text # "unable to destroy cluster"
        /\ (TargetDestroyFailed /\ force) =>
              /\ Printed("warning", "unable to destroy cluster")
              /\ ~RemoveBlocked
        /\ (TargetDestroyFailed /\ ~force) =>
              /\ RemoveBlocked
              /\ ~Called("removeLocalNode")
        /\ RemovePushesOver => RemovePushedToAll

\* without --force the stop of the target succeeded, its destroy failed
\* and the command ended there although there are members to update
C23_Witness ==
    /\ Removing
    /\ ~force
    /\ Remaining # <<>>
    /\ Called("stopPacemaker")
    /\ ~TargetStopFailed
    /\ TargetDestroyFailed
    /\ RemoveBlocked

\* with --force both the stop and the destroy failed and the update was
\* accepted by a member
C23_ForcedGoesOn ==
    /\ Removing
    /\ force
    /\ TargetStopFailed
    /\ TargetDestroyFailed
    /\ RemoveSomeAccepted
    /\ outcome = "ok"


(***************************************************************************)
(* cluster_setup: validation comes first                                   *)
(***************************************************************************)
SettingUp == cmd = "setup"

\* the errors of lines 246-318
SetupValidationTexts ==
    {"if one node is configured for RRP, all nodes must be configured for RRP",
     "Unable to resolve all hostnames, use --force to override",
     "invalid options", "invalid config"}

SetupValidationFailed ==
    /\ outcome = "fatal"
    /\ LastMsg.sev = "error"
    /\ LastMsg.text \in SetupValidationTexts

\* C24: a setup that ends on a node without ring 1 address among nodes
\* with one, on an unresolvable hostname without --force, or on an error
\* of the option parsing or of the config generation has called nothing:
\* no destroy, no config written here, nothing pushed, started or enabled;
\* and an unresolvable hostname without --force does end the setup so.
C24_ValidationBeforeMutation ==
    SettingUp =>
        /\ SetupValidationFailed => calls = <<>>
        /\ pc = "st_validate" => (calls = <<>> /\ msgs = <<>>)
        /\ (~force /\ Printed("warning", "Unable to resolve hostname")) =>
              /\ outcome = "fatal"
              /\ calls = <<>>
              /\ LastMsg.text \in SetupValidationTexts

\* several nodes, no --force, a hostname that does not resolve
C24_Witness ==
    /\ SettingUpNodes
    /\ ~force
    /\ Len(nodes) = 2
    /\ Printed("warning", "Unable to resolve hostname")
    /\ SetupValidationFailed
    /\ LastMsg.text = "Unable to resolve all hostnames, use --force to override"

\* the config generation reported an error
C24_ConfigErrorEnds ==
    /\ SettingUp
    /\ SetupValidationFailed
    /\ LastMsg.text = "invalid config"


(***************************************************************************)
(* The two option parsers (SpecParse)                                      *)
(***************************************************************************)
BothParsed == p_pc \notin {"parse_corosync", "parse_cman"}

RingsOf(result) == result.parsed.transport_options["rings_options"]

\* the interfaces a bind address was given for, in order
BoundInterfaces ==
    SelectSeq(<<0, 1>>, LAMBDA i : HasKey(p_options, Opt("addr", i)))

\* the multicast address and port ring i is to have
ClaimedMcastAddr(i) ==
    IF HasKey(p_options, Opt("mcast", i)) THEN p_options[Opt("mcast", i)]
    ELSE IF i = 0 THEN "239.255.1.1" ELSE "239.255.2.1"

ClaimedMcastPort(i) ==
    IF HasKey(p_options, Opt("mcastport", i))
    THEN p_options[Opt("mcastport", i)]
    ELSE "5405"

\* every ring without broadcast has the address and the port claimed
MulticastAsClaimed(result) ==
    \A k \in 1..Len(RingsOf(result)) :
        LET ring == RingsOf(result)[k]
            i == BoundInterfaces[k]
        IN  ~HasKey(ring, "broadcast") =>
                /\ HasKey(ring, "mcastaddr")
                /\ ring["mcastaddr"] = ClaimedMcastAddr(i)
                /\ HasKey(ring, "mcastport")
                /\ ring["mcastport"] = ClaimedMcastPort(i)

\* C25: in the result of either parser every ring without broadcast has
\* the multicast address given with --mcast<i>, or 239.255.(i+1).1 when
\* none is given, and the port given with --mcastport<i>, or 5405 when
\* none is given.
C25_MulticastDefaults ==
    BothParsed =>
        /\ MulticastAsClaimed(p_corosync)
        /\ MulticastAsClaimed(p_cman)

\* the corosync parser alone does as C25 says
C25_CorosyncMulticastDefaults == BothParsed => MulticastAsClaimed(p_corosync)

\* the cman parser gives every ring its address, and a port only when
\* one is given
C25_CmanMulticastAddress ==
    BothParsed =>
        \A k \in 1..Len(RingsOf(p_cman)) :
            /\ RingsOf(p_cman)[k]["mcastaddr"] =
                  ClaimedMcastAddr(BoundInterfaces[k])
            /\ HasKey(RingsOf(p_cman)[k], "mcastport") <=>
                  HasKey(p_options, Opt("mcastport", BoundInterfaces[k]))

RrpModeOf(result) ==
    IF HasKey(result.parsed.transport_options, "rrp_mode")
    THEN result.parsed.transport_options["rrp_mode"]
    ELSE "None"

Reported(result, name) ==
    \E k \in 1..Len(result.messages) : result.messages[k].report = name

C26_PassiveByDefault ==
    /\ BothParsed
    /\ p_udpu_rrp
    /\ ~HasKey(p_options, "--rrpmode")
    /\ ~HasKey(p_options, "--addr0")
    /\ RrpModeOf(p_corosync) = "passive"

AddrGiven == HasKey(p_options, "--addr0") \/ HasKey(p_options, "--addr1")

\* the parser took the transport to be udpu and a bind address was given
UdpuWithAddr(result) ==
    /\ result.parsed.transport_options["transport"] = "udpu"
    /\ AddrGiven

MulticastCommands ==
    SelectSeq(p_commands.commands,
              LAMBDA c : c.cmd \in {"--setmulticast", "--setaltmulticast"})

\* C27: when the transport is udpu and --addr0 or --addr1 is given, either
\* parser reports the mismatch and returns an empty rings_options list,
\* and the config built from it has no interface section and no multicast
\* command.
C27_UdpuHasNoRings ==
    /\ (BothParsed /\ UdpuWithAddr(p_corosync)) =>
          /\ Reported(p_corosync, "rrp_addresses_transport_mismatch")
          /\ RingsOf(p_corosync) = <<>>
    /\ (BothParsed /\ UdpuWithAddr(p_cman)) =>
          /\ Reported(p_cman, "rrp_addresses_transport_mismatch")
          /\ RingsOf(p_cman) = <<>>
    /\ (p_pc = "done" /\ UdpuWithAddr(p_corosync)) =>
          SubSections(SubSections(p_conf, "totem")[1], "interface") = <<>>
    /\ (p_pc = "done" /\ UdpuWithAddr(p_cman)) => MulticastCommands = <<>>

\* the corosync parser and the config built from its result do as C27 says
C27_CorosyncUdpuHasNoRings ==
    /\ (BothParsed /\ UdpuWithAddr(p_corosync)) =>
          /\ Reported(p_corosync, "rrp_addresses_transport_mismatch")
          /\ RingsOf(p_corosync) = <<>>
    /\ (p_pc = "done" /\ UdpuWithAddr(p_corosync)) =>
          SubSections(SubSections(p_conf, "totem")[1], "interface") = <<>>

\* the parser reported something about the subject
ReportedAbout(result, name, about) ==
    \E k \in 1..Len(result.messages) :
        /\ result.messages[k].report = name
        /\ result.messages[k].about = about

RejectsTransport(result) ==
    ReportedAbout(result, "invalid_option_value", "transport")

RejectsRrpMode(result) ==
    \/ ReportedAbout(result, "invalid_option_value", "RRP mode")
    \/ Reported(result, "rrp_active_not_supported")

RejectsAddresses(result) ==
    Reported(result, "rrp_addresses_transport_mismatch")

\* C28: for every option dict and force value the two parsers agree on
\* whether the transport value is reported, on whether the RRP mode is
\* reported and on whether the bind addresses are reported as not going
\* with the transport.
C28_ParsersRejectTheSame ==
    BothParsed =>
        /\ RejectsTransport(p_corosync) <=> RejectsTransport(p_cman)
        /\ RejectsRrpMode(p_corosync) <=> RejectsRrpMode(p_cman)
        /\ RejectsAddresses(p_corosync) <=> RejectsAddresses(p_cman)

\* what the two parsers do agree on: the RRP mode reports
C28_ParsersAgreeOnRrpMode ==
    BothParsed => (RejectsRrpMode(p_corosync) <=> RejectsRrpMode(p_cman))

(***************************************************************************)
(* The reports of the membership updates (Spec).  msgs is the output of    *)
(* the command in the order it was written.                                *)
(***************************************************************************)

PushFailureTexts ==
    {"unable to add node", "unable to remove node",
     "Error executing command occured"}

IsPushSuccess(m) == m.sev = "info" /\ m.text = "Corosync updated"

IsPushFailure(m) == m.sev = "error" /\ m.text \in PushFailureTexts

PushFailures == SelectSeq(msgs, IsPushFailure)

FailedPushes ==
    SelectSeq(calls, LAMBDA c :
        c.op \in {"addLocalNode", "removeLocalNode"} /\ ~c.ok)

\* C29: within one add-node or remove-node command no failure message of a
\* membership update is written between two 'Corosync updated' messages:
\* the failures of the batch are kept and written after the last member
\* was tried.
C29_PushFailuresAfterTheBatch ==
    (Adding \/ Removing) =>
        \A i, j, k \in 1..Len(msgs) :
            (i < j /\ j < k /\ IsPushSuccess(msgs[i]) /\ IsPushSuccess(msgs[k]))
                => ~IsPushFailure(msgs[j])

\* what the loops do: each failed update is written once, for its member,
\* in the pass that tried it
C29_PushFailuresWrittenInTheirPass ==
    (Adding \/ Removing) =>
        /\ Len(PushFailures) = Len(FailedPushes)
        /\ \A i \in 1..Len(PushFailures) :
               PushFailures[i].node = FailedPushes[i].node

(***************************************************************************)
(* No rollback in add-node and remove-node (Spec).                         *)
(***************************************************************************)

\* an update was accepted by a member
PushAcceptedIn(log) ==
    \E i \in 1..Len(log) :
        log[i].op \in {"addLocalNode", "removeLocalNode"} /\ log[i].ok

\* the target of remove-node was destroyed
TargetDestroyedIn(log) ==
    \E i \in 1..Len(log) : log[i] = Call("destroyCluster", node0, TRUE)

\* the calls that would take back what the command did so far
UndoOps ==
    IF cmd = "add"
    THEN {"removeLocalNode", "destroyCluster", "stopPacemaker",
          "service stop", "crm_node --force -R"}
    ELSE {"addLocalNode", "setCorosyncConfig", "setCorosyncConf",
          "send_local_configs", "startCluster", "enableCluster",
          "service start"}

\* lines 1591-1592: what remove-node runs on the local host after the
\* updates
RemoveLocalOps == {"reloadCorosync", "crm_node --force -R"}

\* a call that compensates for what the log holds: one that undoes an
\* accepted update, or one that is sent to the destroyed target
Compensating(c, log) ==
    \/ PushAcceptedIn(log) /\ c.op \in UndoOps
    \/ /\ cmd = "remove"
       /\ TargetDestroyedIn(log)
       /\ \/ c.op \in UndoOps
          \/ c.node = node0 /\ c.op \notin RemoveLocalOps

IsPrefix(s, t) ==
    Len(s) <= Len(t) /\ \A i \in 1..Len(s) : s[i] = t[i]

\* C30: in add-node and remove-node no step takes anything back: every
\* step keeps the calls made so far, and once a member accepted an update
\* or the target was destroyed, no call made later compensates for it; a
\* command that has ended, by an abort as well, makes no call at all.
C30_NoRollback ==
    [][(Adding \/ Removing) =>
          /\ IsPrefix(calls, calls')
          /\ \A i \in (Len(calls) + 1)..Len(calls') :
                 ~Compensating(calls'[i], calls)
          /\ pc = "done" => calls' = calls]_vars

\* remove-node ended on 'Unable to update any nodes' after the target was
\* destroyed and every remaining member refused the update
C30_Witness ==
    /\ Removing
    /\ pc = "done" /\ outcome = "fatal"
    /\ LastMsg = Msg("error", "Unable to update any nodes", NoNode)
    /\ TargetDestroyedIn(calls)
    /\ Len(CallsOf("removeLocalNode")) >= 2
    /\ ~PushAcceptedIn(calls)
    /\ calls[Len(calls)].op = "removeLocalNode"

\* add-node ended on the failure to send the pcsd configs after a member
\* accepted the update
C30_AddAbortedAfterAcceptance ==
    /\ Adding
    /\ pc = "done" /\ outcome = "fatal"
    /\ PushAcceptedIn(calls)
    /\ calls[Len(calls)] = Call("send_local_configs", node0, FALSE)

(***************************************************************************)
(* The quorum decision for an explicit node list (Spec)                    *)
(***************************************************************************)

\* a list of the nodes of a set
ListOf(S) == CHOOSE l \in [1..Cardinality(S) -> S] : Range(l) = S

\* the verdict of multi-node stop on the answer resp for the node set S
StopVerdictFor(resp, S) == StopQueryVerdict(resp, ListOf(S))

\* C31: for every quorum status that multi-node stop or remove-node got,
\* a predicted loss for the nodes it checks is a predicted loss for every
\* node set that contains them, and a predicted loss for a part of them is
\* a predicted loss for all of them: removing more nodes is never judged
\* safer.
C31_QuorumLossIsMonotonic ==
    /\ cmd = "stop_nodes" =>
        \A i \in 1..Len(qlog) :
            LET resp == qlog[i].resp
                L == Range(nodes)
            IN  /\ StopQueryVerdict(resp, nodes) = "loss" =>
                       \A T \in SUBSET Nodes :
                           L \subseteq T => StopVerdictFor(resp, T) = "loss"
                /\ \A S \in SUBSET L :
                       StopVerdictFor(resp, S) = "loss" =>
                           StopQueryVerdict(resp, nodes) = "loss"
    /\ cmd = "remove" =>
        \A i \in 1..Len(qlog) :
            RemoveQuorumVerdict(qlog[i].resp, node0) = "loss" =>
                \A T \in SUBSET Nodes :
                    node0 \in T => StopVerdictFor(qlog[i].resp, T) = "loss"

\* multi-node stop got a quorate status for which stopping the first of
\* its two nodes alone is judged a loss already, and so is stopping both
C31_Witness ==
    /\ cmd = "stop_nodes"
    /\ Len(nodes) = 2 /\ nodes[1] # nodes[2]
    /\ \E i \in 1..Len(qlog) :
        /\ StopVerdictFor(qlog[i].resp, {nodes[1]}) = "loss"
        /\ StopQueryVerdict(qlog[i].resp, nodes) = "loss"

\* remove-node got a quorate status for which removing the target alone is
\* judged safe and removing it together with another node is not
C31_LossOnlyForMore ==
    /\ cmd = "remove"
    /\ \E i \in 1..Len(qlog) :
        /\ RemoveQuorumVerdict(qlog[i].resp, node0) = "proceed"
        /\ \E m \in Nodes \ {node0} :
               StopVerdictFor(qlog[i].resp, {node0, m}) = "loss"

(***************************************************************************)
(* The two batches of stop_cluster_nodes (Spec)                            *)
(***************************************************************************)

StoppingNodes == cmd = "stop_nodes"

PacemakerStops == CallsOf("stopPacemaker")

CorosyncStops == CallsOf("stopCorosync")

\* the nodes of the calls of a batch, in order
NodesOfCalls(batch) == [i \in 1..Len(batch) |-> batch[i].node]

\* C32: in multi-node stop a corosync stop is issued only after the
\* pacemaker stop was issued on every node of the list and succeeded on
\* every one of them; a failed pacemaker stop on any node ends the command
\* with 'unable to stop all nodes' and corosync is stopped on no node.
C32_PacemakerBeforeCorosync ==
    StoppingNodes =>
        /\ CorosyncStops # <<>> =>
            /\ NodesOfCalls(PacemakerStops) = nodes
            /\ \A i \in 1..Len(PacemakerStops) : PacemakerStops[i].ok
            /\ \A i, j \in 1..Len(calls) :
                   (calls[i].op = "stopPacemaker" /\ calls[j].op = "stopCorosync")
                       => i < j
        /\ (\E i \in 1..Len(PacemakerStops) : ~PacemakerStops[i].ok) =>
            /\ CorosyncStops = <<>>
            /\ NodesOfCalls(PacemakerStops) = nodes
            /\ pc = "done" /\ outcome = "fatal"
            /\ LastMsg = Msg("error", "unable to stop all nodes", NoNode)

\* pacemaker was stopped on both nodes of the list, then corosync on both
C32_Witness ==
    /\ StoppingNodes
    /\ Len(nodes) = 2
    /\ Len(PacemakerStops) = 2
    /\ NodesOfCalls(CorosyncStops) = nodes

\* pacemaker failed to stop on the second node only and the command ended
C32_PacemakerFailureEnds ==
    /\ StoppingNodes
    /\ Len(nodes) = 2
    /\ Len(PacemakerStops) = 2
    /\ PacemakerStops[1].ok /\ ~PacemakerStops[2].ok
    /\ pc = "done"

(***************************************************************************)
(* The quorum loop of stop_cluster_nodes (Spec)                            *)
(***************************************************************************)

\* the loop runs: no --force and the list does not cover the membership
StopChecked == StoppingNodes /\ ~force /\ ~CoversAll

\* a quorate node for which the check of the whole list predicts no loss
QuorateAndSafe(resp) == Quorate(resp) /\ ~StopPredictsLoss(resp)

\* the query failed, or its output is no quorum status and does not show
\* the node to be offline
StopQueryError(resp) ==
    resp.retval # 0 \/ (~resp.parsed /\ ~resp.offline)

\* (a) the last node asked is quorate and safe, and it is the first such
StoppedAtSafeAnswer ==
    /\ qlog # <<>>
    /\ QuorateAndSafe(qlog[Len(qlog)].resp)
    /\ \A i \in 1..(Len(qlog) - 1) : ~Quorate(qlog[i].resp)

\* (b) every node of the list was asked and has nothing to lose
AllHaveNothingToLose ==
    /\ Len(qlog) = Len(nodes)
    /\ \A i \in 1..Len(qlog) : NothingToLose(qlog[i].resp)

\* every node was asked, none is quorate, and some answer is an error
NoAnswerButErrors ==
    /\ Len(qlog) = Len(nodes)
    /\ \A i \in 1..Len(qlog) : ~Quorate(qlog[i].resp)
    /\ \E i \in 1..Len(qlog) : StopQueryError(qlog[i].resp)

\* C33: in stop_cluster_nodes without --force and without the whole
\* membership in the list, a stop is issued only if (a) a node answered
\* that it is quorate and the check of the whole list predicted no loss,
\* the loop ending at the first such node, or (b) every node of the list
\* answered that it is not quorate or looks offline; a quorate node that
\* predicts the loss ends the command at once; and when no node is quorate
\* and some query failed or gave no status for a node that is not offline,
\* the command ends with the collected errors and nothing is stopped.
C33_StopOnlyAfterDecisiveAnswer ==
    StopChecked =>
        /\ \A i \in 1..Len(qlog) : qlog[i].node = nodes[i]
        /\ StopIssued => (StoppedAtSafeAnswer \/ AllHaveNothingToLose)
        /\ \A i \in 1..Len(qlog) :
               StopPredictsLoss(qlog[i].resp) =>
                   /\ i = Len(qlog)
                   /\ pc = "done" /\ outcome = "fatal"
                   /\ LastMsg = Msg("error", StopNodesLossText, NoNode)
                   /\ ~StopIssued
        /\ NoAnswerButErrors =>
               /\ ~StopIssued
               /\ pc \in {"s_query", "done"}
               /\ Len(error_list) =
                      Cardinality({i \in 1..Len(qlog) :
                                      StopQueryError(qlog[i].resp)})
               /\ pc = "done" =>
                      /\ outcome = "fatal"
                      /\ LastMsg = Msg("error", StopNodesUnknownText, NoNode)

\* the first node's query failed, the second node is quorate and safe: the
\* stop went ahead
C33_Witness ==
    /\ StopChecked
    /\ Len(qlog) = 2
    /\ qlog[1].resp.retval # 0
    /\ QuorateAndSafe(qlog[2].resp)
    /\ StopIssued

\* the command ended on the collected errors of the loop
C33_EndedOnErrors ==
    /\ StopChecked
    /\ Len(nodes) = 2
    /\ NoAnswerButErrors
    /\ NothingToLose(qlog[1].resp)
    /\ pc = "done"

\* both nodes have nothing to lose and the stop went ahead
C33_StoppedWithNothingToLose ==
    /\ StopChecked
    /\ Len(nodes) = 2
    /\ AllHaveNothingToLose
    /\ StopIssued

(***************************************************************************)
(* add-node when no member accepts the update (Spec)                       *)
(***************************************************************************)

\* add-node ended on 'Unable to update any nodes'
AddEndedUnaccepted ==
    /\ Adding
    /\ pc = "done" /\ outcome = "fatal"
    /\ LastMsg = Msg("error", "Unable to update any nodes", NoNode)

\* what add-node does for the new node once a member accepted the update
NewNodeOps ==
    {"send_local_configs", "_add_device_model_net", "setCorosyncConfig",
     "enableCluster", "startCluster", "pcsd_sync_certs"}

\* C34: when no existing member accepts the update, add-node does nothing
\* more to the cluster before it ends on 'Unable to update any nodes': no
\* reload of the local corosync, nothing sent to the new node, no enable,
\* no start.
C34_NothingAfterZeroAcceptances ==
    AddEndedUnaccepted =>
        \A i \in 1..Len(calls) :
            calls[i].op \notin (NewNodeOps \cup {"reloadCorosync"})

\* what holds: nothing is done for the new node, and the only call after
\* the updates is the reload of the local corosync
C34_OnlyReloadAfterZeroAcceptances ==
    AddEndedUnaccepted =>
        /\ ~AddAccepted
        /\ \A i \in 1..Len(calls) : calls[i].op \notin NewNodeOps
        /\ calls[Len(calls)].op = "reloadCorosync"
        /\ Len(CallsOf("reloadCorosync")) = 1
        /\ Len(AddPushes) = Len(all_nodes)

(***************************************************************************)
(* The start of the new node in add-node (Spec)                            *)
(***************************************************************************)

\* the op was called with the given result before position j of the log
CalledBefore(op, ok, j) ==
    \E i \in 1..(j - 1) : calls[i].op = op /\ calls[i].ok = ok

FailedCall(op) == \E i \in 1..Len(calls) : calls[i].op = op /\ ~calls[i].ok

\* C35: in add-node the new node is started only after the reload of the
\* local corosync was issued and the new corosync config was set on the
\* new node; a failed enable and a failed start of the new node are
\* printed as warnings and the command goes on to the certificate sync.
C35_StartAfterReloadAndConfig ==
    Adding =>
        /\ \A j \in 1..Len(calls) :
               calls[j].op = "startCluster" =>
                   /\ calls[j].node = node0
                   /\ \E i \in 1..(j - 1) : calls[i].op = "reloadCorosync"
                   /\ CalledBefore("setCorosyncConfig", TRUE, j)
        /\ FailedCall("enableCluster") =>
               /\ Printed("warning", "enable cluster")
               /\ ~Printed("error", "enable cluster")
               /\ pc = "done" => Called("pcsd_sync_certs")
        /\ FailedCall("startCluster") =>
               /\ Printed("warning", "start cluster")
               /\ ~Printed("error", "start cluster")
               /\ pc = "done" => Called("pcsd_sync_certs")

\* the enable and the start of the new node both failed and the command
\* ended in success
C35_Witness ==
    /\ Adding
    /\ FailedCall("enableCluster")
    /\ FailedCall("startCluster")
    /\ pc = "done" /\ outcome = "ok"

(***************************************************************************)
(* The order of the steps of cluster_setup on a node list (Spec)           *)
(***************************************************************************)

\* every call of op1 in the log comes before every call of op2
AllBefore(op1, op2) ==
    \A i, j \in 1..Len(calls) :
        (calls[i].op = op1 /\ calls[j].op = op2) => i < j

\* the op was called on every node of the list, in order, with success
DoneOnAll(op) ==
    /\ NodesOfCalls(CallsOf(op)) = nodes
    /\ \A i \in 1..Len(calls) : calls[i].op = op => calls[i].ok

SetupWaitText == "unable to verify all nodes have started"

C36_NoWaitWithoutStart ==
    /\ SettingUpNodes
    /\ "--wait" \in pcs_options /\ "--start" \notin pcs_options
    /\ outcome = "ok"

(***************************************************************************)
(* The order of the services in the local start and stop (Spec)            *)
(***************************************************************************)

StartingLocally ==
    cmd = "setup" /\ "--local" \in pcs_options /\ "--start" \in pcs_options

StoppingLocally == cmd = "stop_local"

ServiceStarts == CallsOf("service start")

ServiceStops == CallsOf("service stop")

\* what stop_cluster stops, in order: lines 1138-1141
stop_service_list ==
    (IF stop_all \/ "--pacemaker" \in pcs_options
     THEN <<"pacemaker">> ELSE <<>>)
    \o service_list

\* the calls are made for the first services of the list, in its order,
\* and none but the last one made has failed
InOrderUntilFailure(made, services) ==
    /\ Len(made) <= Len(services)
    /\ \A i \in 1..Len(made) : made[i].node = services[i]
    /\ \A i \in 1..(Len(made) - 1) : made[i].ok

\* a failed call is followed by the fatal end of the command
FailureEnds(made) ==
    (made # <<>> /\ ~made[Len(made)].ok) => (pc = "done" /\ outcome = "fatal")

\* C37: the local start starts corosync (cman on a cman host), then
\* corosync-qdevice when it is handled, then pacemaker, and ends at the
\* first service that fails to start, so that pacemaker is never started
\* after corosync failed; the local stop stops pacemaker, then
\* corosync-qdevice, then corosync, and ends at the first that fails to
\* stop, so that corosync is never stopped after pacemaker failed to stop.
C37_ServiceOrder ==
    /\ StartingLocally =>
        /\ start_service_list[Len(start_service_list)] = "pacemaker"
        /\ start_service_list[1] = IF env.is_rhel6 THEN "cman" ELSE "corosync"
        /\ InOrderUntilFailure(ServiceStarts, start_service_list)
        /\ FailureEnds(ServiceStarts)
    /\ StoppingLocally =>
        /\ stop_all => stop_service_list[1] = "pacemaker"
        /\ stop_service_list # <<>> /\ ~env.is_rhel6 /\ "--pacemaker" \notin pcs_options
              => stop_service_list[Len(stop_service_list)] = "corosync"
        /\ InOrderUntilFailure(ServiceStops, stop_service_list)
        /\ FailureEnds(ServiceStops)
        /\ outcome = "ok" => Len(ServiceStops) = Len(stop_service_list)

\* corosync started, corosync-qdevice failed to start, pacemaker was not
\* started
C37_Witness ==
    /\ StartingLocally
    /\ Len(ServiceStarts) = 2
    /\ ServiceStarts[1] = Call("service start", "corosync", TRUE)
    /\ ServiceStarts[2] = Call("service start", "corosync-qdevice", FALSE)
    /\ pc = "done"

\* pacemaker, corosync-qdevice and corosync were stopped, in this order
C37_StoppedInReverse ==
    /\ StoppingLocally
    /\ NodesOfCalls(ServiceStops) = <<"pacemaker", "corosync-qdevice", "corosync">>
    /\ outcome = "ok"

\* pacemaker failed to stop and nothing else was stopped
C37_PacemakerStopFailed ==
    /\ StoppingLocally
    /\ ServiceStops = <<Call("service stop", "pacemaker", FALSE)>>
    /\ pc = "done"

(***************************************************************************)
(* Termination of the waiters (SpecWaitFair)                               *)
(***************************************************************************)

\* waiter i made a status query in this step and did not return
PolledInVain(i) ==
    /\ w_state[i] = "polling"
    /\ w_state'[i] = "polling"
    /\ <<w_last[i], w_wake[i], w_late[i]>>' # <<w_last[i], w_wake[i], w_late[i]>>

\* C38: with a clock that advances and status queries that return,
\* wait_for_local_node_started and wait_for_remote_node_started end: a
\* poll that does not end the wait is followed by a sleep of the interval,
\* which is positive, a waiter that has made a poll after the deadline has
\* returned, and in the end the waiter has returned and
\* wait_for_nodes_started is over.
C38_WaitersTerminate ==
    /\ [][\A i \in Waiters :
            PolledInVain(i) =>
                /\ interval > 0
                /\ w_wake'[i] >= w_wake[i] + interval
                /\ ~w_late'[i]]_vars
    /\ [](\A i \in Waiters : w_late[i] => Returned(i))
    /\ <>[](w_pc = "done" /\ \A i \in Waiters : Returned(i))

\* the local waiter slept twice, polled after the deadline and timed out
C38_Witness ==
    /\ w_nodes = <<>>
    /\ stop_at = interval
    /\ w_pc = "done"
    /\ w_late[1]
    /\ w_result[1] = TimeoutReturn
    /\ w_outcome = "fatal"

\* a remote waiter is asleep after its second poll in vain
C38_AsleepAgain ==
    /\ Len(w_nodes) = 1
    /\ w_state[1] = "polling"
    /\ w_wake[1] = 2 * interval

(***************************************************************************)
(* The deadline of the waiters (SpecWait)                                  *)
(***************************************************************************)

\* C39: a waiter looks at the node status before it looks at the
\* deadline: it has made a status query before it returns, also when the
\* deadline is the time of the call or has passed before its first query,
\* and a node that a query made after the deadline finds started is
\* 'Started'; the deadline is one value, set before the waiters run and
\* never changed, and a waiter that makes a query after it returns in that
\* pass, however late its first query was made.
C39_StatusBeforeDeadline ==
    /\ [](\A i \in Waiters :
            /\ Returned(i) => w_polls[i] >= 1
            /\ (Returned(i) /\ ReportsStarted(w_last[i])) =>
                   w_result[i] = StartedReturn
            /\ w_late[i] => Returned(i))
    /\ [][stop_at' = stop_at]_vars

\* timeout 0, two nodes, each asked once and after the deadline: the first
\* was found started, the second was not and timed out
C39_Witness ==
    /\ Len(w_nodes) = 2
    /\ stop_at = 0
    /\ w_polls = <<1, 1>>
    /\ w_late = <<TRUE, TRUE>>
    /\ w_result[1] = StartedReturn
    /\ w_result[2] = TimeoutReturn

\* timeout 0 and a query at the time of the call: the waiter sleeps once
\* and is found started by its second query, after the deadline
C39_StartedAfterDeadline ==
    /\ w_nodes = <<>>
    /\ stop_at = 0
    /\ w_polls[1] = 2
    /\ w_late[1]
    /\ w_result[1] = StartedReturn
    /\ w_outcome = "ok"

(***************************************************************************)
(* The ring a bind address ends up as (SpecParse)                          *)
(***************************************************************************)

\* both configs were generated, the ccs commands without a failure
BothGenerated == p_pc = "done" /\ p_commands.messages = <<>>

UsesUdp(result) == result.parsed.transport_options["transport"] = "udp"

InterfaceSectionsOf(conf) ==
    SubSections(SubSections(conf, "totem")[1], "interface")

\* corosync.conf has an interface section with ringnumber i that binds
\* the address given for ring i and, unless the ring is a broadcast one,
\* has the multicast address of ring i
CorosyncRingFor(i) ==
    \E k \in 1..Len(InterfaceSectionsOf(p_conf)) :
        LET sec == InterfaceSectionsOf(p_conf)[k]
        IN  /\ AttrValues(sec, "ringnumber") = <<i>>
            /\ AttrValues(sec, "bindnetaddr") = <<p_options[Opt("addr", i)]>>
            /\ ~HasKey(p_options, Opt("broadcast", i)) =>
                   AttrValues(sec, "mcastaddr") = <<ClaimedMcastAddr(i)>>

\* the ccs commands set the multicast address of ring i with the command
\* of ring i
CmanRingFor(i) ==
    \E k \in 1..Len(MulticastCommands) :
        /\ MulticastCommands[k].cmd =
               (IF i = 0 THEN "--setmulticast" ELSE "--setaltmulticast")
        /\ MulticastCommands[k].args # <<>>
        /\ MulticastCommands[k].args[1] = <<"", ClaimedMcastAddr(i)>>

RingAsNumbered(i) ==
    /\ UsesUdp(p_corosync) => CorosyncRingFor(i)
    /\ UsesUdp(p_cman) => CmanRingFor(i)

\* C40: with transport udp every bind address given yields the ring of
\* its number in the corosync.conf and in the ccs commands: --addr0 is
\* ring 0 and --addr1 is ring 1 (ringnumber 1, --setaltmulticast), with
\* the multicast address 239.255.2.1 unless --mcast1 is given, also when
\* --addr0 is not given.
C40_BindAddressKeepsItsRing ==
    BothGenerated =>
        \A i \in {0, 1} :
            HasKey(p_options, Opt("addr", i)) => RingAsNumbered(i)

\* what holds: --addr0 is ring 0 in both, and --addr1 is ring 1 in both
\* when --addr0 is given as well
C40_RingsWithAddr0 ==
    (BothGenerated /\ HasKey(p_options, "--addr0")) =>
        \A i \in {0, 1} :
            HasKey(p_options, Opt("addr", i)) => RingAsNumbered(i)

\* what --addr1 alone gives with transport udp: no interface section in
\* corosync.conf, and the multicast address of ring 1 set with the command
\* of ring 0
C40_Addr1AloneIsMisplaced ==
    (/\ BothGenerated
     /\ HasKey(p_options, "--addr1") /\ ~HasKey(p_options, "--addr0")) =>
        /\ UsesUdp(p_corosync) => InterfaceSectionsOf(p_conf) = <<>>
        /\ UsesUdp(p_cman) =>
               /\ Len(MulticastCommands) = 1
               /\ MulticastCommands[1].cmd = "--setmulticast"
               /\ MulticastCommands[1].args[1] = <<"", ClaimedMcastAddr(1)>>

====
